---- MODULE Spec2Model ----
(***************************************************************************)
(* A model of the protosearch protoc plugin (crates/protosearch-plugin):   *)
(* `process` walks the requested files and their top-level messages,       *)
(* compiles each message to a document mapping (compile_message /          *)
(* compile_field), validates the mapping (validate / walk and the checks), *)
(* and appends a `<full name>.json` output entry when the mapping is       *)
(* non-empty and no diagnostic of the message is an Error.                 *)
(*                                                                         *)
(* Conventions.                                                            *)
(*   Option<T>      None is <<>>, Some(x) is <<x>>.                        *)
(*   String         field names, output names, labels and the parameter    *)
(*                  string are sequences of one-character strings, so that *)
(*                  the name regex and the parameter parser work on        *)
(*                  characters.  File names, message names, mapping type   *)
(*                  names and JSON texts are compared whole and are TLA+   *)
(*                  strings.                                               *)
(*   JSON           a value is a tagged record [t, v].                     *)
(***************************************************************************)
EXTENDS Integers, Sequences, FiniteSets, TLC

VARIABLES
    request,        \* CodeGeneratorRequest: file_to_generate, parameter, and
                    \* the fields of message p.P of p.proto in proto_file
    pc,             \* position of process: "start", "file", "message", "ok", "err"
    ctx,            \* Context built from the request: files_to_generate, target
    fi,             \* index of the current file name in ctx.files_to_generate
    mi,             \* index of the next top-level message of the current file
    response,       \* response.file: sequence of [name, content]
    diagnostics,    \* Vec<Diagnostic> of the run
    bodies,         \* the locals of the loop body, one record per message
                    \* processed so far (history)
    error,          \* Err(...) returned by process, None while Ok
    returned,       \* what process has returned to its caller: None while it
                    \* runs, then Some(Ok(..)) or Some(Err(..)); the locals
                    \* response and diagnostics are dropped on return
    first,          \* what an earlier call of process on the same request
                    \* returned, None when there was none
    offset,         \* protosearch-gen: the number_offset the generator passes
                    \* to merge for this message or extend block
    block,          \* protosearch-gen: a proto::Message or proto::ExtendBlock,
                    \* its fields and its reserved numbers
    merges,         \* the calls of merge on the block so far (history)
    stack           \* the frames of compile_message on the call stack, the
                    \* outermost first: [message, field], field being the
                    \* position of the loop over message.fields()

gen_vars == <<offset, block, merges>>

plugin_vars ==
    <<request, pc, ctx, fi, mi, response, diagnostics, bodies, error, returned, first>>

vars ==
    <<request, pc, ctx, fi, mi, response, diagnostics, bodies, error, returned, first,
      offset, block, merges, stack>>

----------------------------------------------------------------------------
(* Option<T> *)

None == <<>>

Some(x) == <<x>>

IsSome(o) == o # <<>>

Unwrap(o) == o[1]

----------------------------------------------------------------------------
(* Characters and strings *)

Lower ==
    {"a","b","c","d","e","f","g","h","i","j","k","l","m",
     "n","o","p","q","r","s","t","u","v","w","x","y","z"}

Digit == {"0","1","2","3","4","5","6","7","8","9"}

\* The characters the model's strings use, in byte order (String's Ord, which
\* orders the keys of a BTreeMap<String, _>).
AsciiOrder ==
    <<",", "-", ".",
      "0","1","2","3","4","5","6","7","8","9",
      "=", "@",
      "B", "F", "T",
      "_",
      "a","b","c","d","e","f","g","h","i","j","k","l","m",
      "n","o","p","q","r","s","t","u","v","w","x","y","z">>

Ord(c) == CHOOSE i \in 1..Len(AsciiOrder) : AsciiOrder[i] = c

RECURSIVE StrLessFrom(_, _, _)
StrLessFrom(a, b, i) ==
    IF i > Len(a) THEN i <= Len(b)
    ELSE IF i > Len(b) THEN FALSE
    ELSE IF a[i] = b[i] THEN StrLessFrom(a, b, i + 1)
    ELSE Ord(a[i]) < Ord(b[i])

\* a < b for Strings (lexicographic on bytes).
StrLess(a, b) == StrLessFrom(a, b, 1)

\* The keys of a BTreeMap in iteration order.
RECURSIVE SortedKeys(_)
SortedKeys(S) ==
    IF S = {} THEN <<>>
    ELSE LET min == CHOOSE a \in S : \A b \in S \ {a} : StrLess(a, b)
         IN  <<min>> \o SortedKeys(S \ {min})

RECURSIVE Flatten(_)
Flatten(ss) == IF ss = <<>> THEN <<>> ELSE Head(ss) \o Flatten(Tail(ss))

s_valid == <<"v","a","l","i","d">>

s_valid_name == <<"v","a","l","i","d","_","n","a","m","e">>

s_field1 == <<"f","i","e","l","d","1">>

s_at_timestamp == <<"@","t","i","m","e","s","t","a","m","p">>

s_object_field == <<"o","b","j","e","c","t",".","f","i","e","l","d">>

s_empty == <<>>

s_Title == <<"T","i","t","l","e">>

s_1field == <<"1","f","i","e","l","d">>

s_field_hyphen_name == <<"f","i","e","l","d","-","n","a","m","e">>

s_BadField == <<"B","a","d","F","i","e","l","d">>

s_foo == <<"f","o","o">>

s_bar == <<"b","a","r">>

s_bad == <<"b","a","d">>

s_arr == <<"a","r","r">>

s_target_eq == <<"t","a","r","g","e","t","=">>

s_unknown_eq_bar == <<"u","n","k","n","o","w","n","=","b","a","r">>

s_comma == <<",">>

----------------------------------------------------------------------------
(* The name regex of InvalidNameCheck: ^[@a-z][a-z0-9_]*(\.[a-z0-9_]+)*$ *)

FirstClass == {"@"} \cup Lower

WordClass == Lower \cup Digit \cup {"_"}

\* The pattern after its first character, as the automaton of
\* [a-z0-9_]*(\.[a-z0-9_]+)*$ : "word" accepts, "dot" needs one more
\* character of the class.
RECURSIVE MatchRest(_, _, _)
MatchRest(s, i, st) ==
    IF i > Len(s) THEN st = "word"
    ELSE IF st = "word"
         THEN \/ s[i] \in WordClass /\ MatchRest(s, i + 1, "word")
              \/ s[i] = "." /\ MatchRest(s, i + 1, "dot")
         ELSE s[i] \in WordClass /\ MatchRest(s, i + 1, "word")

\* Faulty variant of RE_is_match: the pattern without its anchor at the end,
\* which matches as soon as the first character does.
RE_is_match_unanchored(s) ==
    /\ Len(s) >= 1
    /\ s[1] \in FirstClass

RE_is_match(s) ==
    /\ Len(s) >= 1
    /\ s[1] \in FirstClass
    /\ MatchRest(s, 2, "word")

----------------------------------------------------------------------------
(* JSON values (serde_json::Value) *)

JStr(s) == [t |-> "str", v |-> s]

JNum(n) == [t |-> "num", v |-> n]

JArr(a) == [t |-> "arr", v |-> a]

\* An object whose keys are parameter names (TLA+ strings).
JObj(m) == [t |-> "obj", v |-> m]

\* An object whose keys are property names (character sequences).
JProps(m) == [t |-> "props", v |-> m]

EmptyMap == <<>>

\* map.insert(k, v)
MapInsert(m, k, v) == [x \in DOMAIN m \cup {k} |-> IF x = k THEN v ELSE m[x]]

j_text == "{\"type\":\"text\"}"

j_not_json == "not json"

j_array == "[1,2]"

j_ignore0 == "{\"type\":\"keyword\",\"ignore_above\":0}"

j_string == "\"text\""

JsonTexts == {j_text, j_not_json, j_array, j_ignore0, j_string}

\* serde_json::from_str::<Value> on the texts of JsonTexts.
from_str(text) ==
    CASE text = j_text -> [ok |-> TRUE, value |-> JObj(MapInsert(EmptyMap, "type", JStr("text")))]
      [] text = j_ignore0 ->
            [ok |-> TRUE,
             value |-> JObj(MapInsert(MapInsert(EmptyMap, "type", JStr("keyword")),
                                      "ignore_above", JNum(0)))]
      [] text = j_array -> [ok |-> TRUE, value |-> JArr(<<JNum(1), JNum(2)>>)]
      [] text = j_string -> [ok |-> TRUE, value |-> JStr("text")]
      [] OTHER -> [ok |-> FALSE, value |-> JStr("")]

----------------------------------------------------------------------------
(* Config: the generation parameter string *)

\* s.split(',')
RECURSIVE SplitFrom(_, _, _)
SplitFrom(s, i, cur) ==
    IF i > Len(s) THEN <<cur>>
    ELSE IF s[i] = "," THEN <<cur>> \o SplitFrom(s, i + 1, <<>>)
    ELSE SplitFrom(s, i + 1, Append(cur, s[i]))

split(s) == SplitFrom(s, 1, <<>>)

\* param.strip_prefix(prefix)
strip_prefix(param, prefix) ==
    IF Len(param) >= Len(prefix) /\ SubSeq(param, 1, Len(prefix)) = prefix
    THEN Some(SubSeq(param, Len(prefix) + 1, Len(param)))
    ELSE None

\* Faulty variant of ConfigLoop: a segment that is not target=<v> is skipped.
RECURSIVE ConfigLoopSkipUnknown(_, _, _)
ConfigLoopSkipUnknown(params, i, target) ==
    IF i > Len(params) THEN [ok |-> TRUE, target |-> target]
    ELSE IF IsSome(strip_prefix(params[i], s_target_eq))
         THEN ConfigLoopSkipUnknown(params, i + 1,
                                    strip_prefix(params[i], s_target_eq))
         ELSE ConfigLoopSkipUnknown(params, i + 1, target)

\* The loop of Config::try_from over the non-empty segments, from segment i.
RECURSIVE ConfigLoop(_, _, _)
ConfigLoop(params, i, target) ==
    IF i > Len(params) THEN [ok |-> TRUE, target |-> target]
    ELSE IF params[i] = <<>> THEN ConfigLoop(params, i + 1, target)
    ELSE LET v == strip_prefix(params[i], s_target_eq)
         IN  IF IsSome(v) THEN ConfigLoop(params, i + 1, Some(Unwrap(v)))
             ELSE [ok |-> FALSE, target |-> None]

Config_try_from(s) == ConfigLoop(split(s), 1, None)

----------------------------------------------------------------------------
(* Annotations: proto::Field (name, mapping, target), proto::FieldMapping, *)
(* proto::Index                                                            *)

\* proto::FieldMapping with its optional fields.
FieldMapping(type, ignore_above, position_increment_gap, index_prefixes) ==
    [type |-> type,
     ignore_above |-> ignore_above,
     position_increment_gap |-> position_increment_gap,
     index_prefixes |-> index_prefixes]

\* FieldMapping::default()
DefaultFieldMapping == FieldMapping(None, None, None, None)

IndexPrefixes(min_chars, max_chars) == [min_chars |-> min_chars, max_chars |-> max_chars]

\* One entry of the repeated `target` field.
Target(label, json) == [label |-> label, json |-> json]

\* proto::Field: optional name, optional mapping, repeated target.
FieldOptions(name, mapping, target) == [name |-> name, mapping |-> mapping, target |-> target]

\* An annotation that sets nothing: (protosearch.field) = {}.
BareOptions == FieldOptions(None, None, <<>>)

----------------------------------------------------------------------------
(* Descriptors *)

\* A FieldDescriptor.  card is "Singular", "Repeated" or "Map"; kind is the
\* RuntimeType of the element (of the value, for a map); desc is the full name
\* of the message type when kind = "Message"; unknown_fields are the
\* unregistered entries of the field's options.
EXTENSION_NUMBER == 50000

\* One entry of the unknown fields of a field's options: its number, its wire
\* type and, for a length-delimited entry, the proto::Field its bytes encode.
UnknownField(number, wire, payload) == [number |-> number, wire |-> wire, payload |-> payload]

\* The unknown fields of a field annotated once with `options` (Some), or of a
\* field with no options at all (None).
Annotation(options) ==
    [i \in 1..Len(options) |-> UnknownField(EXTENSION_NUMBER, "LengthDelimited", options[i])]

FieldRaw(msg, name, number, card, kind, desc, unknown_fields) ==
    [msg |-> msg, name |-> name, number |-> number, card |-> card,
     kind |-> kind, desc |-> desc, unknown_fields |-> unknown_fields]

Field(msg, name, number, card, kind, desc, options) ==
    FieldRaw(msg, name, number, card, kind, desc, Annotation(options))

Message(full_name, name, file, parent, nested, index, fields) ==
    [full_name |-> full_name, name |-> name, file |-> file, parent |-> parent,
     nested |-> nested, index |-> index, fields |-> fields]

ScalarKinds == {"I32", "I64", "U32", "U64", "F32", "F64", "Bool", "String", "VecU8", "Enum"}

\* message Plain { string id = 1; }
m_Plain ==
    Message("t.Plain", "Plain", "tests.proto", None, <<>>, None,
        <<Field("t.Plain", <<"i","d">>, 1, "Singular", "String", "", None)>>)

\* message IndexOnly { option (protosearch.index) = {dynamic: STRICT}; string id = 1; }
m_IndexOnly ==
    Message("t.IndexOnly", "IndexOnly", "tests.proto", None, <<>>,
        Some([dynamic |-> Some("strict")]),
        <<Field("t.IndexOnly", <<"i","d">>, 1, "Singular", "String", "", None)>>)

NameField(n, number, name) ==
    Field("t.Names", <<"n", n>>, number, "Singular", "String", "",
          Some(FieldOptions(Some(name), None, <<>>)))

\* message Names: nine string fields n1..n9, each with a name override.
m_Names ==
    Message("t.Names", "Names", "tests.proto", None, <<>>, None,
        <<NameField("1", 1, s_valid),
          NameField("2", 2, s_valid_name),
          NameField("3", 3, s_field1),
          NameField("4", 4, s_at_timestamp),
          NameField("5", 5, s_object_field),
          NameField("6", 6, s_empty),
          NameField("7", 7, s_Title),
          NameField("8", 8, s_1field),
          NameField("9", 9, s_field_hyphen_name)>>)

\* A string field of message Bad annotated with a mapping.
BadField(name, number, mapping) ==
    Field("t.Bad", name, number, "Singular", "String", "",
          Some(FieldOptions(None, Some(mapping), <<>>)))

\* message Bad: ok has a bare annotation; zero, ng (negative), va (valid), mn
\* (min_chars negative) and mx (max_chars negative) carry the parameter values
\* of the test cases of the parameter checks.
m_Bad ==
    Message("t.Bad", "Bad", "tests.proto", None, <<>>, None,
        <<Field("t.Bad", <<"o","k">>, 1, "Singular", "String", "", Some(BareOptions)),
          BadField(<<"z","e","r","o">>, 2, FieldMapping(None, Some(0), Some(0), None)),
          BadField(<<"n","g">>, 3, FieldMapping(None, Some(-5), Some(-1), None)),
          BadField(<<"v","a">>, 4,
                   FieldMapping(None, Some(1), Some(1), Some(IndexPrefixes(Some(0), Some(20))))),
          BadField(<<"m","n">>, 5,
                   FieldMapping(None, None, None, Some(IndexPrefixes(Some(-1), None)))),
          BadField(<<"m","x">>, 6,
                   FieldMapping(None, None, None, Some(IndexPrefixes(None, Some(-1)))))>>)

\* message Target: ot has a target foo, ij has targets bad (not JSON) and arr
\* (JSON, not an object), ik has a target bad (JSON, not an object), pl has no
\* target, ig has a target foo whose JSON object sets ignore_above to 0.
m_Target ==
    Message("t.Target", "Target", "tests.proto", None, <<>>, None,
        <<Field("t.Target", <<"o","t">>, 1, "Singular", "String", "",
                Some(FieldOptions(None, Some(FieldMapping(Some("keyword"), Some(1), None, None)),
                                  <<Target(s_foo, j_text)>>))),
          Field("t.Target", <<"i","j">>, 2, "Singular", "String", "",
                Some(FieldOptions(None, None,
                                  <<Target(s_bad, j_not_json), Target(s_arr, j_array)>>))),
          Field("t.Target", <<"i","k">>, 3, "Singular", "String", "",
                Some(FieldOptions(None, None, <<Target(s_bad, j_array)>>))),
          Field("t.Target", <<"p","l">>, 4, "Singular", "I32", "", Some(BareOptions)),
          Field("t.Target", <<"i","g">>, 5, "Singular", "String", "",
                Some(FieldOptions(None, Some(FieldMapping(Some("keyword"), Some(1), None, None)),
                                  <<Target(s_foo, j_ignore0)>>)))>>)

\* message Outer { message Inner {...} ... }: embedded messages and a map.
m_Outer ==
    Message("t.Outer", "Outer", "tests.proto", None, <<"t.Outer.Inner">>, None,
        <<Field("t.Outer", <<"i","n">>, 1, "Singular", "Message", "t.Outer.Inner", Some(BareOptions)),
          Field("t.Outer", <<"i","t">>, 2, "Repeated", "Message", "t.Outer.Inner", Some(BareOptions)),
          Field("t.Outer", <<"e","m">>, 3, "Singular", "Message", "t.Plain", Some(BareOptions)),
          Field("t.Outer", <<"e","x">>, 4, "Singular", "Message", "u.Ext", Some(BareOptions)),
          Field("t.Outer", <<"t","g">>, 5, "Map", "String", "", Some(BareOptions)),
          Field("t.Outer", <<"s","k">>, 6, "Singular", "Message", "t.Outer.Inner", None)>>)

m_Inner ==
    Message("t.Outer.Inner", "Inner", "tests.proto", Some("t.Outer"), <<>>, None,
        <<Field("t.Outer.Inner", <<"b","f">>, 1, "Singular", "String", "",
                Some(FieldOptions(Some(s_BadField), None, <<>>))),
          Field("t.Outer.Inner", <<"o","k">>, 2, "Singular", "I64", "", Some(BareOptions)),
          Field("t.Outer.Inner", <<"n","o">>, 3, "Singular", "String", "", None)>>)

\* message Wrap { Bad w = 1 [{}]; Target x = 2 [{}]; }: top-level messages used
\* as field types.
m_Wrap ==
    Message("t.Wrap", "Wrap", "tests.proto", None, <<>>, None,
        <<Field("t.Wrap", <<"w">>, 1, "Singular", "Message", "t.Bad", Some(BareOptions)),
          Field("t.Wrap", <<"x">>, 2, "Singular", "Message", "t.Target", Some(BareOptions))>>)

\* ext.proto, package u: message Ext { string e = 1 [{name: "Title"}]; }
m_Ext ==
    Message("u.Ext", "Ext", "ext.proto", None, <<>>, None,
        <<Field("u.Ext", <<"e">>, 1, "Singular", "String", "",
                Some(FieldOptions(Some(s_Title), None, <<>>)))>>)

\* r.proto, package r: messages that refer to themselves.
\* message Node { string v = 1 [{}]; Node next = 2 [{}]; }
m_Node ==
    Message("r.Node", "Node", "r.proto", None, <<>>, None,
        <<Field("r.Node", <<"v">>, 1, "Singular", "String", "", Some(BareOptions)),
          Field("r.Node", <<"n","e","x","t">>, 2, "Singular", "Message", "r.Node",
                Some(BareOptions))>>)

\* message Ping { Pong o = 1 [{}]; }  message Pong { repeated Ping i = 1 [{}]; }
m_Ping ==
    Message("r.Ping", "Ping", "r.proto", None, <<>>, None,
        <<Field("r.Ping", <<"o">>, 1, "Singular", "Message", "r.Pong", Some(BareOptions))>>)

m_Pong ==
    Message("r.Pong", "Pong", "r.proto", None, <<>>, None,
        <<Field("r.Pong", <<"i">>, 1, "Repeated", "Message", "r.Ping", Some(BareOptions))>>)

\* message Tree { repeated Tree kids = 1; string id = 2 [{}]; }: the field that
\* refers back is not annotated.
m_Tree ==
    Message("r.Tree", "Tree", "r.proto", None, <<>>, None,
        <<Field("r.Tree", <<"k","i","d","s">>, 1, "Repeated", "Message", "r.Tree", None),
          Field("r.Tree", <<"i","d">>, 2, "Singular", "String", "", Some(BareOptions))>>)

\* message Loop { Loop l = 1 [{target: {label: "foo", json: "not json"}}]; }
m_Loop ==
    Message("r.Loop", "Loop", "r.proto", None, <<>>, None,
        <<Field("r.Loop", <<"l">>, 1, "Singular", "Message", "r.Loop",
                Some(FieldOptions(None, None, <<Target(s_foo, j_not_json)>>)))>>)

\* p.proto, package p: message P, whose fields are those of the request.
m_P == Message("p.P", "P", "p.proto", None, <<>>, None, request.p_fields)

MessageNames ==
    {"t.Plain", "t.IndexOnly", "t.Names", "t.Bad", "t.Target", "t.Outer",
     "t.Outer.Inner", "t.Wrap", "u.Ext", "p.P",
     "r.Node", "r.Ping", "r.Pong", "r.Tree", "r.Loop"}

\* The MessageDescriptor of a full name.
MessageDescriptor(full_name) ==
    CASE full_name = "t.Plain" -> m_Plain
      [] full_name = "t.IndexOnly" -> m_IndexOnly
      [] full_name = "t.Names" -> m_Names
      [] full_name = "t.Bad" -> m_Bad
      [] full_name = "t.Target" -> m_Target
      [] full_name = "t.Outer" -> m_Outer
      [] full_name = "t.Outer.Inner" -> m_Inner
      [] full_name = "t.Wrap" -> m_Wrap
      [] full_name = "u.Ext" -> m_Ext
      [] full_name = "p.P" -> m_P
      [] full_name = "r.Node" -> m_Node
      [] full_name = "r.Ping" -> m_Ping
      [] full_name = "r.Pong" -> m_Pong
      [] full_name = "r.Tree" -> m_Tree
      [] full_name = "r.Loop" -> m_Loop

\* The files of the descriptor set of the requests process is run on (r.proto
\* belongs to the descriptor set of the descent specification only).
FileNames == {"tests.proto", "ext.proto", "p.proto"}

\* file_descriptor.messages(): the top-level messages in declaration order.
FileMessages(file) ==
    CASE file = "tests.proto" ->
            <<"t.Plain", "t.IndexOnly", "t.Names", "t.Bad", "t.Target", "t.Outer", "t.Wrap">>
      [] file = "ext.proto" -> <<"u.Ext">>
      [] file = "p.proto" -> <<"p.P">>
      [] file = "r.proto" -> <<"r.Node", "r.Ping", "r.Pong", "r.Tree", "r.Loop">>

\* Whether the descriptor set carries SourceCodeInfo for the file
\* (ext.proto was compiled without --include_source_info).
HasSourceInfo(file) == file # "ext.proto"

\* The SourceCodeInfo.Location entries protoc records for the fields of a
\* message found at `path`: path ++ [2, j], and a 0-based span that is
\* [line, col, end col] for a top-level message and [line, col, end line,
\* end col] for a nested one.
FieldLocations(fields, path, line) ==
    [j \in 1..Len(fields) |->
        [path |-> path \o <<2, j - 1>>,
         span |-> IF Len(path) = 2
                  THEN <<line + j, 2, 30>>
                  ELSE <<line + j, 4, line + j + 1, 5>>]]

\* The entries for the nested messages of top-level message i.
NestedLocations(nested, i) ==
    Flatten([k \in 1..Len(nested) |->
        FieldLocations(MessageDescriptor(nested[k]).fields, <<4, i - 1, 3, k - 1>>,
                       20 * (i - 1) + 10 * k)])

\* The entries for top-level message i and the messages nested in it.
TopLocations(m, i) ==
    FieldLocations(m.fields, <<4, i - 1>>, 20 * (i - 1)) \o NestedLocations(m.nested, i)

\* file_proto.source_code_info.location of a file, top-down as protoc numbers
\* it: [4, i] for top-level message i, then [3, k] for its nested message k.
LocationsOf(tops) ==
    Flatten([i \in 1..Len(tops) |-> TopLocations(MessageDescriptor(tops[i]), i)])

\* What the descriptor set of tests.proto records differently from protoc:
\* no entry for field ng of t.Bad, a span of two elements for its field mn
\* and a span of five elements for its field mx.
RECURSIVE Recorded(_, _)
Recorded(locs, i) ==
    IF i > Len(locs) THEN <<>>
    ELSE (CASE locs[i].path = <<4, 3, 2, 2>> -> <<>>
            [] locs[i].path = <<4, 3, 2, 4>> ->
                  <<[path |-> locs[i].path, span |-> SubSeq(locs[i].span, 1, 2)]>>
            [] locs[i].path = <<4, 3, 2, 5>> ->
                  <<[path |-> locs[i].path, span |-> locs[i].span \o <<0, 0>>]>>
            [] OTHER -> <<locs[i]>>)
         \o Recorded(locs, i + 1)

SourceLocations(file) ==
    IF file = "tests.proto"
    THEN Recorded(LocationsOf(FileMessages(file)), 1)
    ELSE LocationsOf(FileMessages(file))

----------------------------------------------------------------------------
(* options.rs *)

\* Message::merge_from_bytes for proto::FieldMapping: a set optional field
\* replaces, the index_prefixes message merges field by field.
MergeFieldMapping(a, b) ==
    LET pick(x, y) == IF IsSome(y) THEN y ELSE x
    IN  FieldMapping(pick(a.type, b.type),
                     pick(a.ignore_above, b.ignore_above),
                     pick(a.position_increment_gap, b.position_increment_gap),
                     IF IsSome(a.index_prefixes) /\ IsSome(b.index_prefixes)
                     THEN Some(IndexPrefixes(
                              pick(Unwrap(a.index_prefixes).min_chars,
                                   Unwrap(b.index_prefixes).min_chars),
                              pick(Unwrap(a.index_prefixes).max_chars,
                                   Unwrap(b.index_prefixes).max_chars)))
                     ELSE pick(a.index_prefixes, b.index_prefixes))

\* Message::merge_from_bytes for proto::Field: name replaces, mapping merges,
\* target entries are appended.
MergeFieldOptions(a, b) ==
    FieldOptions(IF IsSome(b.name) THEN b.name ELSE a.name,
                 IF IsSome(a.mapping) /\ IsSome(b.mapping)
                 THEN Some(MergeFieldMapping(Unwrap(a.mapping), Unwrap(b.mapping)))
                 ELSE IF IsSome(b.mapping) THEN b.mapping ELSE a.mapping,
                 a.target \o b.target)

\* The test of the loop of get_field_options on one unknown field.
IsAnnotation(e) == e.number = EXTENSION_NUMBER /\ e.wire = "LengthDelimited"

\* The loop of get_field_options over the unknown fields from entry i:
\* [field, found].
RECURSIVE ScanOptions(_, _, _)
ScanOptions(unknown_fields, i, acc) ==
    IF i > Len(unknown_fields) THEN acc
    ELSE IF IsAnnotation(unknown_fields[i])
    THEN ScanOptions(unknown_fields, i + 1,
             [field |-> MergeFieldOptions(acc.field, unknown_fields[i].payload),
              found |-> TRUE])
    ELSE ScanOptions(unknown_fields, i + 1, acc)

\* Ok(if found { Some(field) } else { None })
FoundOptions(r) == IF r.found THEN Some(r.field) ELSE None

\* Faulty variant of get_field_options: the merged options are returned whether
\* or not an annotation was found (unwrap_or_default instead of the Option).
get_field_options_or_default(field) ==
    Some(ScanOptions(field.unknown_fields, 1, [field |-> BareOptions, found |-> FALSE]).field)

\* get_field_options
get_field_options(field) ==
    FoundOptions(ScanOptions(field.unknown_fields, 1, [field |-> BareOptions, found |-> FALSE]))

\* get_index_options: the message descriptors hold the decoded value.
get_index_options(message) == MessageDescriptor(message).index

\* Faulty variant of property_name: an override set to the empty string falls
\* back to the declared name.
property_name_if_non_empty(field, options) ==
    IF IsSome(options.name) /\ Unwrap(options.name) # <<>>
    THEN Unwrap(options.name)
    ELSE field.name

\* property_name: the override when it is set, otherwise the field name.
property_name(field, options) ==
    IF IsSome(options.name) THEN Unwrap(options.name) ELSE field.name

----------------------------------------------------------------------------
(* span.rs *)

\* iter.position(pred): Some(0-based index) of the first element on which the
\* predicate holds; hits[i] is the predicate on element i.
Position(hits) ==
    IF \E i \in 1..Len(hits) : hits[i]
    THEN Some((CHOOSE i \in 1..Len(hits) : hits[i] /\ \A j \in 1..(i - 1) : ~hits[j]) - 1)
    ELSE None

\* The element iter.find(pred) returns, given its position.
ElementAt(seq, position) ==
    IF position = None THEN None ELSE Some(seq[Unwrap(position) + 1])

\* iter.find(pred): Some(first element on which the predicate holds).
Find(seq, hits) == ElementAt(seq, Position(hits))

\* `x as u32` of an i32: the identity on the non-negative values that protoc
\* records (the model's spans are non-negative).
as_u32(x) == x

Point(line, column) == [line |-> line, column |-> column]

Span(start, end) == [start |-> start, end |-> end]

\* Faulty variant of from_proto: the points keep the recorded, 0-based values.
from_proto_as_recorded(span) ==
    IF Len(span) = 3
    THEN Some(Span(Point(as_u32(span[1]), as_u32(span[2])),
                   Point(as_u32(span[1]), as_u32(span[3]))))
    ELSE IF Len(span) = 4
    THEN Some(Span(Point(as_u32(span[1]), as_u32(span[2])),
                   Point(as_u32(span[3]), as_u32(span[4]))))
    ELSE None

\* Span::from_proto
from_proto(span) ==
    IF Len(span) = 3
    THEN Some(Span(Point(as_u32(span[1]) + 1, as_u32(span[2]) + 1),
                   Point(as_u32(span[1]) + 1, as_u32(span[3]) + 1)))
    ELSE IF Len(span) = 4
    THEN Some(Span(Point(as_u32(span[1]) + 1, as_u32(span[2]) + 1),
                   Point(as_u32(span[3]) + 1, as_u32(span[4]) + 1)))
    ELSE None

\* Faulty variant of PushIndex: the index pushed counts from 1.
PushIndexFromOne(path, number, idx) ==
    IF IsSome(path) /\ IsSome(idx)
    THEN Some(Unwrap(path) \o <<number, Unwrap(idx) + 1>>)
    ELSE None

\* path.push(number); path.push(idx), with the ? on both options.
PushIndex(path, number, idx) ==
    IF IsSome(path) /\ IsSome(idx) THEN Some(Unwrap(path) \o <<number, Unwrap(idx)>>) ELSE None

\* message_path: Option<Vec<i32>>
RECURSIVE message_path(_)
MessagePathOf(m) ==
    IF m.parent = None
    THEN PushIndex(Some(<<>>), 4,
             Position([i \in 1..Len(FileMessages(m.file)) |->
                          MessageDescriptor(FileMessages(m.file)[i]).full_name = m.full_name]))
    ELSE PushIndex(message_path(Unwrap(m.parent)), 3,
             Position([i \in 1..Len(MessageDescriptor(Unwrap(m.parent)).nested) |->
                          MessageDescriptor(MessageDescriptor(Unwrap(m.parent)).nested[i]).full_name
                              = m.full_name]))

message_path(message) == MessagePathOf(MessageDescriptor(message))

\* source_code_info.location.iter().find(|l| l.path == path)?, then from_proto.
SpanOf(found) == IF IsSome(found) THEN from_proto(Unwrap(found).span) ELSE None

LocationAt(locations, path) ==
    Find(locations, [i \in 1..Len(locations) |-> locations[i].path = path])

SpanAt(file, path) ==
    IF path = None \/ ~HasSourceInfo(file) THEN None
    ELSE SpanOf(LocationAt(SourceLocations(file), Unwrap(path)))

\* Span::from_field
FromFieldOf(field, m) ==
    SpanAt(m.file,
           PushIndex(message_path(field.msg), 2,
                     Position([i \in 1..Len(m.fields) |-> m.fields[i].number = field.number])))

from_field(field) == FromFieldOf(field, MessageDescriptor(field.msg))

----------------------------------------------------------------------------
(* diagnostic.rs *)

Location(file, span) == [file |-> file, span |-> span]

\* Diagnostic::error(kind).at(location)
DiagnosticError(kind, location) ==
    [severity |-> "Error", kind |-> kind, location |-> Some(location)]

\* Diagnostic::warning(kind).at(location)
DiagnosticWarning(kind, location) ==
    [severity |-> "Warning", kind |-> kind, location |-> Some(location)]

is_error(d) == d.severity = "Error"

InvalidTargetJson(message, field, label) ==
    [tag |-> "InvalidTargetJson", message |-> message, field |-> field, label |-> label]

InvalidTargetJsonType(message, field, label) ==
    [tag |-> "InvalidTargetJsonType", message |-> message, field |-> field, label |-> label]

UnknownTarget(message, field, label) ==
    [tag |-> "UnknownTarget", message |-> message, field |-> field, label |-> label]

InvalidFieldName(message, field, name) ==
    [tag |-> "InvalidFieldName", message |-> message, field |-> field, name |-> name]

InvalidParameterValue(message, field, parameter, reason) ==
    [tag |-> "InvalidParameterValue", message |-> message, field |-> field,
     parameter |-> parameter, reason |-> reason]

----------------------------------------------------------------------------
(* mapping.rs *)

\* Mapping { descriptor, index, properties }: properties is a function from
\* output names to properties (a BTreeMap<String, Property>).
Mapping(descriptor, index, properties) ==
    [descriptor |-> descriptor, index |-> index, properties |-> properties]

\* Mapping::default()
DefaultMapping == Mapping(None, None, EmptyMap)

\* Mapping::with_descriptor
with_descriptor(descriptor) == Mapping(Some(descriptor), None, EmptyMap)

Typed(field_mapping, inferred_type) ==
    [tag |-> "Typed", field_mapping |-> field_mapping, inferred_type |-> inferred_type]

Raw(map) == [tag |-> "Raw", map |-> map]

Leaf(parameters) == [tag |-> "Leaf", parameters |-> parameters]

Object(parameters, properties) ==
    [tag |-> "Object", parameters |-> parameters, properties |-> properties]

IsObject(p) == p.tag = "Object"

\* other_to_json for proto::IndexPrefixes
IndexPrefixesToJson(ip) ==
    LET m1 == IF IsSome(ip.min_chars)
              THEN MapInsert(EmptyMap, "min_chars", JNum(Unwrap(ip.min_chars)))
              ELSE EmptyMap
    IN  IF IsSome(ip.max_chars)
        THEN MapInsert(m1, "max_chars", JNum(Unwrap(ip.max_chars)))
        ELSE m1

\* other_to_json for proto::FieldMapping: one key per set field.
other_to_json(fm) ==
    LET m1 == IF IsSome(fm.type) THEN MapInsert(EmptyMap, "type", JStr(Unwrap(fm.type)))
              ELSE EmptyMap
        m2 == IF IsSome(fm.ignore_above)
              THEN MapInsert(m1, "ignore_above", JNum(Unwrap(fm.ignore_above)))
              ELSE m1
        m3 == IF IsSome(fm.position_increment_gap)
              THEN MapInsert(m2, "position_increment_gap", JNum(Unwrap(fm.position_increment_gap)))
              ELSE m2
    IN  IF IsSome(fm.index_prefixes)
        THEN MapInsert(m3, "index_prefixes", JObj(IndexPrefixesToJson(Unwrap(fm.index_prefixes))))
        ELSE m3

\* other_to_json for proto::Index
IndexToJson(index) ==
    IF IsSome(index.dynamic)
    THEN MapInsert(EmptyMap, "dynamic", JStr(Unwrap(index.dynamic)))
    ELSE EmptyMap

\* parameters_to_map
parameters_to_map(parameters) ==
    IF parameters.tag = "Raw" THEN parameters.map
    ELSE LET map == other_to_json(parameters.field_mapping)
         IN  IF IsSome(parameters.inferred_type) /\ "type" \notin DOMAIN map
             THEN MapInsert(map, "type", JStr(Unwrap(parameters.inferred_type)))
             ELSE map

\* Serialize for Property and for BTreeMap<String, Property>.
RECURSIVE SerializeProperty(_)
SerializeProperties(properties) ==
    JProps([n \in DOMAIN properties |-> SerializeProperty(properties[n])])

SerializeProperty(p) ==
    IF p.tag = "Leaf" THEN JObj(parameters_to_map(p.parameters))
    ELSE JObj(MapInsert(parameters_to_map(p.parameters), "properties",
                        SerializeProperties(p.properties.properties)))

\* Serialize for Mapping
SerializeMapping(mapping) ==
    LET map == IF IsSome(mapping.index) THEN IndexToJson(Unwrap(mapping.index)) ELSE EmptyMap
    IN  IF mapping.properties # EmptyMap
        THEN JObj(MapInsert(map, "properties", SerializeProperties(mapping.properties)))
        ELSE JObj(map)

\* The keys the objects of a mapping use, in byte order.
KeyOrder ==
    <<"dynamic", "ignore_above", "index_prefixes", "max_chars", "min_chars",
      "position_increment_gap", "properties", "type">>

\* The keys of a BTreeMap<String, Value> in iteration order, from KeyOrder[i].
RECURSIVE ObjectKeys(_, _)
ObjectKeys(dom, i) ==
    IF i > Len(KeyOrder) THEN <<>>
    ELSE (IF KeyOrder[i] \in dom THEN <<KeyOrder[i]>> ELSE <<>>) \o ObjectKeys(dom, i + 1)

RECURSIVE Reverse(_)
Reverse(seq) == IF seq = <<>> THEN <<>> ELSE Reverse(Tail(seq)) \o <<Head(seq)>>

\* The keys of a map as a serializer visits them: in the iteration order of the
\* BTreeMap, or in the opposite order when `reversed`.
Visited(keys, reversed) == IF reversed THEN Reverse(keys) ELSE keys

\* An integer in decimal digits.
RECURSIVE Decimal(_)
Decimal(n) ==
    IF n < 0 THEN <<"-">> \o Decimal(-n)
    ELSE IF n < 10 THEN <<<<"0","1","2","3","4","5","6","7","8","9">>[n + 1]>>
    ELSE Decimal(n \div 10) \o Decimal(n % 10)

\* The members of an object from the i-th key visited; texts[i] is the text of
\* that key.
RECURSIVE Serialized(_, _)
RECURSIVE Members(_, _, _, _, _)
Members(m, keys, texts, i, reversed) ==
    IF i > Len(keys) THEN <<>>
    ELSE (IF i > 1 THEN <<",">> ELSE <<>>)
         \o texts[i] \o <<":">> \o Serialized(m[keys[i]], reversed)
         \o Members(m, keys, texts, i + 1, reversed)

RECURSIVE Elements(_, _, _)
Elements(a, i, reversed) ==
    IF i > Len(a) THEN <<>>
    ELSE (IF i > 1 THEN <<",">> ELSE <<>>)
         \o Serialized(a[i], reversed) \o Elements(a, i + 1, reversed)

\* The keys of an object of parameters and of an object of properties, quoted.
QuotedNames(keys) == [i \in 1..Len(keys) |-> <<"\"", keys[i], "\"">>]

QuotedChars(keys) == [i \in 1..Len(keys) |-> <<"\"">> \o keys[i] \o <<"\"">>]

\* The compact JSON text of a value as a sequence of tokens.
Serialized(v, reversed) ==
    CASE v.t = "str" -> <<"\"", v.v, "\"">>
      [] v.t = "num" -> Decimal(v.v)
      [] v.t = "arr" -> <<"[">> \o Elements(v.v, 1, reversed) \o <<"]">>
      [] v.t = "obj" ->
            <<"{">>
            \o Members(v.v, Visited(ObjectKeys(DOMAIN v.v, 1), reversed),
                       QuotedNames(Visited(ObjectKeys(DOMAIN v.v, 1), reversed)),
                       1, reversed)
            \o <<"}">>
      [] v.t = "props" ->
            <<"{">>
            \o Members(v.v, Visited(SortedKeys(DOMAIN v.v), reversed),
                       QuotedChars(Visited(SortedKeys(DOMAIN v.v), reversed)),
                       1, reversed)
            \o <<"}">>

\* serde_json::to_string
to_string(v) == Serialized(v, FALSE)

----------------------------------------------------------------------------
(* plugin.rs: the mapping compiler *)

\* Faulty variant of infer_type: an unsigned 32-bit integer maps to "integer"
\* and an enum to "integer" (its wire representation).
infer_type_by_wire(kind) ==
    CASE kind \in {"I32", "U32", "Enum"} -> "integer"
      [] kind = "I64" -> "long"
      [] kind = "U64" -> "unsigned_long"
      [] kind = "F32" -> "float"
      [] kind = "F64" -> "double"
      [] kind = "Bool" -> "boolean"
      [] kind = "String" -> "keyword"
      [] kind = "VecU8" -> "binary"
      [] kind = "Message" -> "object"

infer_type(kind) ==
    CASE kind = "I32" -> "integer"
      [] kind = "I64" -> "long"
      [] kind = "U32" -> "long"
      [] kind = "U64" -> "unsigned_long"
      [] kind = "F32" -> "float"
      [] kind = "F64" -> "double"
      [] kind = "Bool" -> "boolean"
      [] kind = "String" -> "keyword"
      [] kind = "VecU8" -> "binary"
      [] kind = "Message" -> "object"
      [] kind = "Enum" -> "keyword"

\* The inferred type of a field: the match on field.runtime_field_type().
InferredType(field) ==
    IF field.card = "Map" THEN "object" ELSE infer_type(field.kind)

\* Parameters::Typed of a field mapping: inferred_type is None when the
\* mapping has a type.
TypedOf(field, fm) ==
    Typed(fm, IF IsSome(fm.type) THEN None ELSE Some(InferredType(field)))

\* property: a Leaf of the annotation's mapping (unwrap_or_default), with the
\* inferred type when the mapping sets none.
property(field, options) ==
    Leaf(TypedOf(field, IF IsSome(options.mapping) THEN Unwrap(options.mapping)
                        ELSE DefaultFieldMapping))

\* Faulty variant of FindTarget: the last override with the label, not the first.
FindLastTarget(target, options) ==
    IF target = None \/ ~\E i \in 1..Len(options.target) : options.target[i].label = Unwrap(target)
    THEN None
    ELSE Some(options.target[CHOOSE i \in 1..Len(options.target) :
                  /\ options.target[i].label = Unwrap(target)
                  /\ \A j \in (i + 1)..Len(options.target) :
                        options.target[j].label # Unwrap(target)])

\* ctx.target().and_then(|label| options.target.iter().find(|t| t.label() == label))
FindTarget(target, options) ==
    IF target = None THEN None
    ELSE Find(options.target,
              [i \in 1..Len(options.target) |-> options.target[i].label = Unwrap(target)])

\* The message a field's property descends into: Some(desc) for a singular or
\* repeated embedded message.
MappingType(field) ==
    IF field.card \in {"Singular", "Repeated"} /\ field.kind = "Message"
    THEN Some(field.desc)
    ELSE None

\* Faulty variant of Classify: every embedded message is an Object, whether or
\* not its sub-mapping has properties.
ClassifyByDescriptor(mapping, prop) ==
    IF IsSome(mapping.descriptor) /\ prop.tag = "Leaf"
    THEN Object(prop.parameters, mapping)
    ELSE prop

\* The last match of compile_field: an Object when the sub-mapping has properties.
Classify(mapping, prop) ==
    IF mapping.properties # EmptyMap /\ prop.tag = "Leaf"
    THEN Object(prop.parameters, mapping)
    ELSE prop

\* What compile_field returns and pushes: entry is None or Some([name, property]).
Compiled(entry, diags) == [entry |-> entry, diagnostics |-> diags]

\* The outcome of the first match of compile_field: the property, or the early
\* return (dropped), and the diagnostics pushed.
Resolved(dropped, prop, diags) == [dropped |-> dropped, property |-> prop, diagnostics |-> diags]

\* Faulty variant of ResolveOverride: JSON that is not an object is reported
\* as JSON that does not parse.
ResolveOverrideOneKind(message, field, location, label, parsed) ==
    IF parsed.ok /\ parsed.value.t = "obj"
    THEN Resolved(FALSE, Leaf(Raw(parsed.value.v)), <<>>)
    ELSE Resolved(TRUE, None,
             <<DiagnosticError(InvalidTargetJson(message, field.name, label), location)>>)

\* The arm Some(entry): the override's JSON text decides.
ResolveOverride(message, field, location, label, parsed) ==
    IF parsed.ok /\ parsed.value.t = "obj"
    THEN Resolved(FALSE, Leaf(Raw(parsed.value.v)), <<>>)
    ELSE IF parsed.ok
    THEN Resolved(TRUE, None,
             <<DiagnosticError(InvalidTargetJsonType(message, field.name, label), location)>>)
    ELSE Resolved(TRUE, None,
             <<DiagnosticError(InvalidTargetJson(message, field.name, label), location)>>)

\* Faulty variant of ResolveDefault: the warning is pushed whenever a target is
\* active, also for a field that declares no override.
ResolveDefaultAlwaysWarns(target, message, field, options, location) ==
    Resolved(FALSE, property(field, options),
             IF IsSome(target)
             THEN <<DiagnosticWarning(UnknownTarget(message, field.name, Unwrap(target)),
                                      location)>>
             ELSE <<>>)

\* The arms None: the default mapping, with a warning when a target is active
\* and the field has targets.
ResolveDefault(target, message, field, options, location) ==
    Resolved(FALSE, property(field, options),
             IF IsSome(target) /\ options.target # <<>>
             THEN <<DiagnosticWarning(UnknownTarget(message, field.name, Unwrap(target)),
                                      location)>>
             ELSE <<>>)

\* The first match of compile_field.
Resolve(target, message, field, options, location, entry) ==
    IF IsSome(entry)
    THEN ResolveOverride(message, field, location, Unwrap(entry).label,
                         from_str(Unwrap(entry).json))
    ELSE ResolveDefault(target, message, field, options, location)

RECURSIVE compile_message(_, _, _)

DefaultCompiled == [mapping |-> DefaultMapping, diagnostics |-> <<>>]

\* Faulty variant of Finish: the diagnostics pushed while the embedded message
\* was compiled are left out.
FinishOwnOnly(name, resolved, sub) ==
    Compiled(Some([name |-> name, property |-> Classify(sub.mapping, resolved.property)]),
             resolved.diagnostics)

\* Some((name, classified property)), with the diagnostics of the sub-mapping
\* after the field's own.
Finish(name, resolved, sub) ==
    Compiled(Some([name |-> name, property |-> Classify(sub.mapping, resolved.property)]),
             resolved.diagnostics \o sub.diagnostics)

\* The rest of compile_field after the first match: descend into the embedded
\* message, unless the match returned.
Descend(target, field, file, name, resolved) ==
    IF resolved.dropped THEN Compiled(None, resolved.diagnostics)
    ELSE Finish(name, resolved,
                IF IsSome(MappingType(field))
                THEN compile_message(target, Unwrap(MappingType(field)), file)
                ELSE DefaultCompiled)

\* compile_field for an annotated field.
CompileAnnotated(target, field, file, options) ==
    Descend(target, field, file, property_name(field, options),
            Resolve(target, MessageDescriptor(field.msg).name, field, options,
                    Location(file, from_field(field)), FindTarget(target, options)))

\* The let-else of compile_field.
CompileFound(target, field, file, found) ==
    IF found = None THEN Compiled(None, <<>>)
    ELSE CompileAnnotated(target, field, file, Unwrap(found))

compile_field(target, field, file) ==
    CompileFound(target, field, file, get_field_options(field))

\* Faulty variant of InsertCompiled: a name already in mapping.properties keeps
\* its property.
InsertCompiledKeepFirst(acc, r) ==
    [mapping |->
        IF IsSome(r.entry) /\ Unwrap(r.entry).name \notin DOMAIN acc.mapping.properties
        THEN Mapping(acc.mapping.descriptor, acc.mapping.index,
                     MapInsert(acc.mapping.properties,
                               Unwrap(r.entry).name, Unwrap(r.entry).property))
        ELSE acc.mapping,
     diagnostics |-> acc.diagnostics \o r.diagnostics]

\* mapping.properties.insert(name, property) when compile_field returned Some,
\* and the diagnostics it pushed.
InsertCompiled(acc, r) ==
    [mapping |->
        IF IsSome(r.entry)
        THEN Mapping(acc.mapping.descriptor, acc.mapping.index,
                     MapInsert(acc.mapping.properties,
                               Unwrap(r.entry).name, Unwrap(r.entry).property))
        ELSE acc.mapping,
     diagnostics |-> acc.diagnostics \o r.diagnostics]

\* The loop of compile_message from field i: acc is [mapping, diagnostics].
RECURSIVE CompileFields(_, _, _, _, _)
CompileFields(target, fields, file, i, acc) ==
    IF i > Len(fields) THEN acc
    ELSE CompileFields(target, fields, file, i + 1,
                       InsertCompiled(acc, compile_field(target, fields[i], file)))

\* compile_message: [mapping, diagnostics], the diagnostics being those it
\* pushes to the caller's vector.
compile_message(target, message, file) ==
    CompileFields(target, MessageDescriptor(message).fields, file, 1,
                  [mapping |-> Mapping(Some(message), get_index_options(message), EmptyMap),
                   diagnostics |-> <<>>])

----------------------------------------------------------------------------
(* validator.rs *)

\* One pair of the collect() of ValidationContext::new.
InsertProtoName(acc, field, opts) ==
    IF IsSome(opts) THEN MapInsert(acc, property_name(field, Unwrap(opts)), field.name) ELSE acc

\* The collect() of ValidationContext::new over the fields from field i: a map
\* from output name to declared name, a later field replacing an earlier one.
RECURSIVE ProtoNames(_, _, _)
ProtoNames(fields, i, acc) ==
    IF i > Len(fields) THEN acc
    ELSE ProtoNames(fields, i + 1, InsertProtoName(acc, fields[i], get_field_options(fields[i])))

\* ValidationContext::new; message is the descriptor's full name.
ValidationContext(file, message) ==
    [file |-> file, message |-> message,
     proto_names |-> ProtoNames(MessageDescriptor(message).fields, 1, EmptyMap)]

\* ValidationContext::proto_name
proto_name(vctx, mapping_name) ==
    IF mapping_name \in DOMAIN vctx.proto_names
    THEN vctx.proto_names[mapping_name]
    ELSE mapping_name

\* message.field_by_name(name).and_then(|f| Span::from_field(&f))
SpanOfField(found) == IF IsSome(found) THEN from_field(Unwrap(found)) ELSE None

\* ValidationContext::field_span
field_span(vctx, name) ==
    SpanOfField(Find(MessageDescriptor(vctx.message).fields,
                     [i \in 1..Len(MessageDescriptor(vctx.message).fields) |->
                         MessageDescriptor(vctx.message).fields[i].name = name]))

\* ValidationContext::location
location(vctx, name) == Location(vctx.file, field_span(vctx, name))

\* The integer a JSON object gives a key, None when it gives none.
RawNumber(map, key) ==
    IF key \in DOMAIN map /\ map[key].t = "num" THEN Some(map[key].v) ELSE None

\* Faulty variant of field_mapping: the parameters of a Raw property are read
\* from its JSON object.
field_mapping_of_any(prop) ==
    IF prop.parameters.tag = "Typed" THEN Some(prop.parameters.field_mapping)
    ELSE Some(FieldMapping(None, RawNumber(prop.parameters.map, "ignore_above"),
                           RawNumber(prop.parameters.map, "position_increment_gap"), None))

\* field_mapping: the typed parameters of a property, None for a Raw one.
field_mapping(prop) ==
    IF prop.parameters.tag = "Typed" THEN Some(prop.parameters.field_mapping) ELSE None

\* One diagnostic if `bad`, none otherwise.
PushIf(bad, d) == IF bad THEN <<d>> ELSE <<>>

InvalidNameCheck(vctx, name, prop) ==
    PushIf(~RE_is_match(name),
           DiagnosticWarning(InvalidFieldName(vctx.message, proto_name(vctx, name), name),
                             location(vctx, proto_name(vctx, name))))

\* Faulty variant of IgnoreAboveInvalid: zero is accepted.
IgnoreAboveNegative(fm) ==
    IsSome(fm) /\ IsSome(Unwrap(fm).ignore_above) /\ Unwrap(Unwrap(fm).ignore_above) < 0

IgnoreAboveInvalid(fm) ==
    IsSome(fm) /\ IsSome(Unwrap(fm).ignore_above) /\ Unwrap(Unwrap(fm).ignore_above) <= 0

InvalidIgnoreAboveCheck(vctx, name, prop) ==
    PushIf(IgnoreAboveInvalid(field_mapping(prop)),
           DiagnosticError(
               InvalidParameterValue(vctx.message, proto_name(vctx, name),
                                     "ignore_above", "must be greater than 0"),
               location(vctx, proto_name(vctx, name))))

PositionIncrementGapInvalid(fm) ==
    /\ IsSome(fm)
    /\ IsSome(Unwrap(fm).position_increment_gap)
    /\ Unwrap(Unwrap(fm).position_increment_gap) < 0

InvalidPositionIncrementGapCheck(vctx, name, prop) ==
    PushIf(PositionIncrementGapInvalid(field_mapping(prop)),
           DiagnosticError(
               InvalidParameterValue(vctx.message, proto_name(vctx, name),
                                     "position_increment_gap",
                                     "must be greater than or equal to 0"),
               location(vctx, proto_name(vctx, name))))

\* field_mapping.index_prefixes.as_ref(), None also for a Raw property.
PrefixesOf(fm) == IF IsSome(fm) THEN Unwrap(fm).index_prefixes ELSE None

MinCharsInvalid(prefixes) ==
    /\ IsSome(prefixes)
    /\ IsSome(Unwrap(prefixes).min_chars)
    /\ Unwrap(Unwrap(prefixes).min_chars) < 0

MaxCharsInvalid(prefixes) ==
    /\ IsSome(prefixes)
    /\ IsSome(Unwrap(prefixes).max_chars)
    /\ ~(0 <= Unwrap(Unwrap(prefixes).max_chars) /\ Unwrap(Unwrap(prefixes).max_chars) <= 20)

\* Faulty variant of IndexPrefixesDiagnostics: max_chars is judged only when
\* min_chars passed (else if).
IndexPrefixesFirstOnly(message, pn, loc, prefixes) ==
    IF MinCharsInvalid(prefixes)
    THEN <<DiagnosticError(
               InvalidParameterValue(message, pn, "index_prefixes.min_chars",
                                     "must be greater than or equal to 0"), loc)>>
    ELSE PushIf(MaxCharsInvalid(prefixes),
                DiagnosticError(
                    InvalidParameterValue(message, pn, "index_prefixes.max_chars",
                                          "must be less than or equal to 20"), loc))

IndexPrefixesDiagnostics(message, pn, loc, prefixes) ==
    PushIf(MinCharsInvalid(prefixes),
           DiagnosticError(
               InvalidParameterValue(message, pn, "index_prefixes.min_chars",
                                     "must be greater than or equal to 0"), loc))
    \o PushIf(MaxCharsInvalid(prefixes),
           DiagnosticError(
               InvalidParameterValue(message, pn, "index_prefixes.max_chars",
                                     "must be less than or equal to 20"), loc))

InvalidIndexPrefixesCheck(vctx, name, prop) ==
    IndexPrefixesDiagnostics(vctx.message, proto_name(vctx, name),
                             location(vctx, proto_name(vctx, name)),
                             PrefixesOf(field_mapping(prop)))

\* for check in CHECKS { check.check_property(...) }
RunChecks(vctx, name, prop) ==
    InvalidNameCheck(vctx, name, prop)
    \o InvalidIgnoreAboveCheck(vctx, name, prop)
    \o InvalidPositionIncrementGapCheck(vctx, name, prop)
    \o InvalidIndexPrefixesCheck(vctx, name, prop)

\* Faulty variant of NestedContext: the context of the enclosing message is
\* kept below an Object.
NestedContextOfParent(vctx, properties) == vctx

\* The context walk uses below an Object: a fresh one for the nested message.
NestedContext(vctx, properties) ==
    IF IsSome(properties.descriptor)
    THEN ValidationContext(vctx.file, Unwrap(properties.descriptor))
    ELSE vctx

RECURSIVE walk(_, _, _)

\* walk over the properties of a map, the keys given in iteration order.
WalkKeys(vctx, properties, keys) ==
    Flatten([i \in 1..Len(keys) |-> walk(vctx, keys[i], properties[keys[i]])])

WalkAll(vctx, properties) == WalkKeys(vctx, properties, SortedKeys(DOMAIN properties))

walk(vctx, name, prop) ==
    RunChecks(vctx, name, prop)
    \o (IF IsObject(prop)
        THEN WalkAll(NestedContext(vctx, prop.properties), prop.properties.properties)
        ELSE <<>>)

validate(vctx, mapping) == WalkAll(vctx, mapping.properties)

----------------------------------------------------------------------------
(* plugin.rs: process *)

\* ctx.get_file_descriptor_by_name(filename).is_some()
get_file_descriptor_by_name(filename) == filename \in FileNames

\* message_diagnostics.iter().any(|d| d.is_error())
has_errors(message_diagnostics) ==
    \E i \in 1..Len(message_diagnostics) : is_error(message_diagnostics[i])

\* Faulty variant of Emits: any diagnostic, a Warning too, suppresses the file.
EmitsOnlyWhenClean(mapping, message_diagnostics) ==
    (mapping.properties # EmptyMap \/ IsSome(mapping.index))
    /\ message_diagnostics = <<>>

\* Faulty variant of Emits: the test looks at the diagnostics of the whole run
\* so far, so that an Error of an earlier message suppresses the later ones.
EmitsUntilFirstError(mapping, message_diagnostics) ==
    (mapping.properties # EmptyMap \/ IsSome(mapping.index))
    /\ ~has_errors(diagnostics \o message_diagnostics)

\* The condition under which process pushes the message's output file.
Emits(mapping, message_diagnostics) ==
    (mapping.properties # EmptyMap \/ IsSome(mapping.index))
    /\ ~has_errors(message_diagnostics)

\* format!("{}.json", message_descriptor.full_name()): the entry is named after
\* the message; the model keeps the full name and the suffix apart.
OutputFile(message, mapping) ==
    [name |-> [full_name |-> MessageDescriptor(message).full_name, ext |-> "json"],
     content |-> to_string(SerializeMapping(mapping))]

\* The locals of one turn of the loop once the message is compiled and validated.
Body(filename, message, mapping, message_diagnostics) ==
    [filename |-> filename,
     message |-> message,
     mapping |-> mapping,
     message_diagnostics |-> message_diagnostics,
     emitted |-> Emits(mapping, message_diagnostics)]

\* message_diagnostics.extend(validate(&validation_ctx, &mapping))
Validated(filename, message, compiled) ==
    Body(filename, message, compiled.mapping,
         compiled.diagnostics
         \o validate(ValidationContext(filename, message), compiled.mapping))

\* One turn of the loop over the messages of a file: compile, validate, decide.
MessageBody(target, filename, message) ==
    Validated(filename, message, compile_message(target, message, filename))

----------------------------------------------------------------------------
(* The requests the model runs process on *)

\* The longest file_to_generate list.
MaxRequested == 2

RequestNames == FileNames \cup {"missing.proto"}

FileLists == UNION {[1..n -> RequestNames] : n \in 0..MaxRequested}

Parameters ==
    {<<>>,
     s_target_eq \o s_foo,
     s_target_eq \o s_bar,
     s_target_eq \o s_bad,
     s_target_eq \o s_arr,
     s_unknown_eq_bar,
     s_target_eq \o s_foo \o s_comma \o s_unknown_eq_bar,
     s_comma \o s_target_eq \o s_foo \o s_comma,
     s_target_eq \o s_foo \o s_comma \o s_target_eq \o s_bar}

\* The shapes of a field: [card, kind, desc].
Shape(card, kind, desc) == [card |-> card, kind |-> kind, desc |-> desc]

AllShapes ==
    {Shape("Singular", k, "") : k \in ScalarKinds}
    \cup {Shape("Repeated", k, "") : k \in {"String", "I32", "Enum"}}
    \cup {Shape("Map", "String", ""), Shape("Map", "Message", "t.Plain")}
    \cup {Shape(c, "Message", d) : c \in {"Singular", "Repeated"},
                                   d \in {"t.Outer.Inner", "t.Plain", "t.Bad"}}
    \cup {Shape("Singular", "Message", d) : d \in {"t.Target", "t.Wrap"}}

CoreShapes ==
    {Shape("Singular", "String", ""),
     Shape("Singular", "Message", "t.Outer.Inner"),
     Shape("Repeated", "Message", "t.Plain")}

NamePool == {None, Some(s_empty), Some(s_Title)}

MappingPool ==
    {None,
     Some(DefaultFieldMapping),
     Some(FieldMapping(Some("text"), None, None, None)),
     Some(FieldMapping(None, Some(0), None, None))}

TargetPool ==
    {<<>>,
     <<Target(s_foo, j_text)>>,
     <<Target(s_foo, j_not_json)>>,
     <<Target(s_foo, j_array)>>,
     <<Target(s_foo, j_not_json), Target(s_foo, j_text)>>,
     <<Target(s_foo, j_text), Target(s_foo, j_array)>>}

OptionsPool == {FieldOptions(n, m, t) : n \in NamePool, m \in MappingPool, t \in TargetPool}

\* The unknown fields of the options of a field: none, one annotation, an
\* entry under another number or of another wire type, a split annotation.
AllUnknown ==
    {<<>>}
    \cup {Annotation(Some(o)) : o \in OptionsPool}
    \cup {<<UnknownField(EXTENSION_NUMBER + 1, "LengthDelimited", BareOptions)>>,
          <<UnknownField(EXTENSION_NUMBER, "Varint", BareOptions)>>,
          <<UnknownField(EXTENSION_NUMBER, "LengthDelimited",
                         FieldOptions(Some(s_Title), None, <<Target(s_foo, j_text)>>)),
            UnknownField(EXTENSION_NUMBER, "LengthDelimited",
                         FieldOptions(None, Some(FieldMapping(Some("text"), None, None, None)),
                                      <<>>))>>}

\* Annotations whose mapping sets values around the limits of the parameter
\* checks.
RangeMappings ==
    {FieldMapping(None, Some(i), Some(g), None) : i \in {-5, 0, 1}, g \in {-1, 0}}
    \cup {FieldMapping(None, None, None, Some(IndexPrefixes(mn, mx))) :
             mn \in {None, Some(-1), Some(0)},
             mx \in {None, Some(-1), Some(0), Some(20), Some(21)}}

RangeUnknown == {Annotation(Some(FieldOptions(None, Some(m), <<>>))) : m \in RangeMappings}

CoreUnknown ==
    {<<>>,
     Annotation(Some(BareOptions)),
     Annotation(Some(FieldOptions(None, Some(FieldMapping(Some("text"), None, None, None)), <<>>))),
     Annotation(Some(FieldOptions(None, None, <<Target(s_foo, j_text)>>))),
     <<UnknownField(EXTENSION_NUMBER + 1, "LengthDelimited", BareOptions)>>}

\* Field f = 1 of message p.P.
FirstFields ==
    {FieldRaw("p.P", <<"f">>, 1, sh.card, sh.kind, sh.desc, u) : sh \in AllShapes, u \in CoreUnknown}
    \cup
    {FieldRaw("p.P", <<"f">>, 1, sh.card, sh.kind, sh.desc, u) : sh \in CoreShapes, u \in AllUnknown}
    \cup
    {FieldRaw("p.P", <<"f">>, 1, "Singular", "String", "", u) : u \in RangeUnknown}

\* Field g = 2 of message p.P: not annotated, or annotated with the output
\* name "f" of the first field, without overrides or with an override for foo
\* that is not JSON.
SecondFields ==
    {Field("p.P", <<"g">>, 2, "Singular", "String", "", None),
     Field("p.P", <<"g">>, 2, "Singular", "I64", "", Some(FieldOptions(Some(<<"f">>), None, <<>>))),
     Field("p.P", <<"g">>, 2, "Singular", "I64", "",
           Some(FieldOptions(Some(<<"f">>), None, <<Target(s_foo, j_not_json)>>)))}

\* Field f = 1 of message p.P embedding a message of tests.proto that has, or
\* embeds a message that has, fields with target overrides.
EmbeddingFields ==
    {Field("p.P", <<"f">>, 1, "Singular", "Message", d, Some(BareOptions)) :
        d \in {"t.Target", "t.Wrap"}}

\* The fields of p.P when p.proto is not the file under test.
DefaultPFields ==
    <<Field("p.P", <<"f">>, 1, "Singular", "String", "", Some(BareOptions)),
      Field("p.P", <<"g">>, 2, "Singular", "String", "", None)>>

Requests ==
    {[file_to_generate |-> l, parameter |-> p, p_fields |-> DefaultPFields] :
        l \in FileLists, p \in Parameters}
    \cup
    {[file_to_generate |-> <<"p.proto">>, parameter |-> p, p_fields |-> <<f, g>>] :
        p \in {<<>>, s_target_eq \o s_foo, s_target_eq \o s_bar},
        f \in FirstFields, g \in SecondFields}
    \cup
    {[file_to_generate |-> <<"p.proto">>, parameter |-> s_target_eq \o s_bad,
      p_fields |-> <<f, DefaultPFields[2]>>] : f \in EmbeddingFields}

----------------------------------------------------------------------------
(* protosearch-gen, proto.rs: merge *)

\* proto::Field { name, typ, number }
ProtoField(name, typ, number) == [name |-> name, typ |-> typ, number |-> number]

\* The fields and the reserved numbers of a proto::Message or ExtendBlock.
Block(fields, reserved) == [fields |-> fields, reserved |-> reserved]

\* map.remove(k)
MapRemove(m, k) == [x \in DOMAIN m \ {k} |-> m[x]]

\* fields.drain(..).map(..).collect::<HashMap<_, _>>(): name -> (number, typ),
\* from field i on; a later field of the same name replaces an earlier one.
RECURSIVE CurrentFields(_, _, _)
CurrentFields(fields, i, acc) ==
    IF i > Len(fields) THEN acc
    ELSE CurrentFields(fields, i + 1,
                       MapInsert(acc, fields[i].name,
                                 [number |-> fields[i].number, typ |-> fields[i].typ]))

\* The largest of a non-empty set of numbers.
Max(S) == CHOOSE n \in S : \A k \in S : k <= n

\* number_offset - 1, the argument of unwrap_or, is computed in every call of
\* next_number, whatever the block holds: in u32 it underflows for 0.
Underflows(number_offset) == number_offset - 1 < 0

\* Faulty variant of next_number: the reserved numbers are not considered.
next_number_of_fields(b, number_offset) ==
    IF b.fields = <<>>
    THEN (number_offset - 1) + 1
    ELSE Max({b.fields[i].number : i \in 1..Len(b.fields)}) + 1

\* next_number: one more than the largest field or reserved number, or
\* number_offset when there is none. Where number_offset - 1 underflows and
\* the build wraps, the wrapped value plus 1 wraps back to number_offset.
next_number(b, number_offset) ==
    IF b.fields = <<>> /\ b.reserved = <<>>
    THEN (number_offset - 1) + 1
    ELSE Max({b.fields[i].number : i \in 1..Len(b.fields)}
             \cup {b.reserved[i] : i \in 1..Len(b.reserved)}) + 1

\* The state of the loop of merge_fields over `other`.
MergeState(current_fields, new_fields, next) ==
    [ok |-> TRUE, current_fields |-> current_fields, new_fields |-> new_fields,
     next_number |-> next]

\* return Err(Error::FieldConflict(name))
FieldConflict(st) ==
    [ok |-> FALSE, current_fields |-> st.current_fields, new_fields |-> st.new_fields,
     next_number |-> st.next_number]

\* Faulty variant of MergeLoop: a field found in current_fields is numbered
\* like a new one.
RECURSIVE MergeLoopRenumbers(_, _, _)
MergeLoopRenumbers(other, i, st) ==
    IF i > Len(other) THEN st
    ELSE IF other[i].name \in DOMAIN st.current_fields
              /\ other[i].typ # st.current_fields[other[i].name].typ
    THEN FieldConflict(st)
    ELSE MergeLoopRenumbers(other, i + 1,
             MergeState(MapRemove(st.current_fields, other[i].name),
                        Append(st.new_fields,
                               ProtoField(other[i].name, other[i].typ, st.next_number)),
                        st.next_number + 1))

\* The loop of merge_fields over `other`, from field i.
RECURSIVE MergeLoop(_, _, _)
MergeLoop(other, i, st) ==
    IF i > Len(other) THEN st
    ELSE IF other[i].name \in DOMAIN st.current_fields
    THEN IF other[i].typ # st.current_fields[other[i].name].typ
         THEN FieldConflict(st)
         ELSE MergeLoop(other, i + 1,
                  MergeState(MapRemove(st.current_fields, other[i].name),
                             Append(st.new_fields,
                                    ProtoField(other[i].name, other[i].typ,
                                               st.current_fields[other[i].name].number)),
                             st.next_number))
    ELSE MergeLoop(other, i + 1,
             MergeState(st.current_fields,
                        Append(st.new_fields,
                               ProtoField(other[i].name, other[i].typ, st.next_number)),
                        st.next_number + 1))

\* One step of the stable sort by name: f goes after the fields whose name is
\* not greater.
RECURSIVE InsertByName(_, _)
InsertByName(sorted, f) ==
    IF sorted = <<>> THEN <<f>>
    ELSE IF StrLess(f.name, Head(sorted).name) THEN <<f>> \o sorted
    ELSE <<Head(sorted)>> \o InsertByName(Tail(sorted), f)

\* fields.sort_by(|a, b| a.name.cmp(&b.name))
RECURSIVE SortByName(_, _, _)
SortByName(fields, i, sorted) ==
    IF i > Len(fields) THEN sorted
    ELSE SortByName(fields, i + 1, InsertByName(sorted, fields[i]))

\* The orders in which current_fields.values() may yield the numbers left in
\* the HashMap.
ValueOrders(current_fields) ==
    {[i \in 1..Len(order) |-> current_fields[order[i]].number] :
        order \in {o \in [1..Cardinality(DOMAIN current_fields) -> DOMAIN current_fields] :
                      \A i, k \in DOMAIN o : i # k => o[i] # o[k]}}

\* merge_fields up to the end of its loop over `other`.
merge_fields(b, other, number_offset) ==
    MergeLoop(other, 1,
              MergeState(CurrentFields(b.fields, 1, EmptyMap), <<>>,
                         next_number(b, number_offset)))

----------------------------------------------------------------------------
(* process as a state machine *)

Init ==
    /\ request \in Requests
    /\ pc = "start"
    /\ ctx = None
    /\ fi = 0
    /\ mi = 0
    /\ response = <<>>
    /\ diagnostics = <<>>
    /\ bodies = <<>>
    /\ error = None
    /\ returned = None
    /\ first = None
    /\ offset = 1
    /\ block = Block(<<>>, <<>>)
    /\ merges = <<>>
    /\ stack = <<>>

\* Result<(CodeGeneratorResponse, Vec<Diagnostic>)>: the Ok value carries the
\* response files and the diagnostics, the Err value only the error.
Ok(files, diags) == [ok |-> TRUE, file |-> files, diagnostics |-> diags]

Err(e) == [ok |-> FALSE, error |-> e]

\* Context::try_from(request)?: the parameter string is a valid Config.
Start ==
    /\ pc = "start"
    /\ Config_try_from(request.parameter).ok
    /\ ctx' = Some([files_to_generate |-> request.file_to_generate,
                    target |-> Config_try_from(request.parameter).target])
    /\ pc' = "file"
    /\ fi' = 1
    /\ UNCHANGED <<request, mi, response, diagnostics, bodies, error, returned, first, gen_vars, stack>>

\* Context::try_from(request)?: an unknown parameter fails the request.
StartErr ==
    /\ pc = "start"
    /\ ~Config_try_from(request.parameter).ok
    /\ pc' = "err"
    /\ error' = Some("InvalidRequest")
    /\ returned' = Some(Err("InvalidRequest"))
    /\ UNCHANGED <<request, ctx, fi, mi, response, diagnostics, bodies, first, gen_vars, stack>>

Filename == Unwrap(ctx).files_to_generate[fi]

\* Faulty variant of FileMissing: a file name without a descriptor is skipped.
FileMissingSkipped ==
    /\ pc = "file"
    /\ fi <= Len(Unwrap(ctx).files_to_generate)
    /\ ~get_file_descriptor_by_name(Filename)
    /\ fi' = fi + 1
    /\ UNCHANGED <<request, pc, ctx, mi, response, diagnostics, bodies, error,
                   returned, first, gen_vars, stack>>

\* The next file name has a descriptor: enter the loop over its messages.
FileFound ==
    /\ pc = "file"
    /\ fi <= Len(Unwrap(ctx).files_to_generate)
    /\ get_file_descriptor_by_name(Filename)
    /\ pc' = "message"
    /\ mi' = 1
    /\ UNCHANGED <<request, ctx, fi, response, diagnostics, bodies, error, returned, first, gen_vars, stack>>

\* The next file name has no descriptor: ok_or(InvalidRequest)?.
FileMissing ==
    /\ pc = "file"
    /\ fi <= Len(Unwrap(ctx).files_to_generate)
    /\ ~get_file_descriptor_by_name(Filename)
    /\ pc' = "err"
    /\ error' = Some("InvalidRequest")
    /\ returned' = Some(Err("InvalidRequest"))
    /\ UNCHANGED <<request, ctx, fi, mi, response, diagnostics, bodies, first, gen_vars, stack>>

\* No file name is left: Ok((response, diagnostics)).
FilesDone ==
    /\ pc = "file"
    /\ fi > Len(Unwrap(ctx).files_to_generate)
    /\ pc' = "ok"
    /\ returned' = Some(Ok(response, diagnostics))
    /\ UNCHANGED <<request, ctx, fi, mi, response, diagnostics, bodies, error, first, gen_vars, stack>>

\* Faulty variant of PushBody: the serializer visits the keys of the maps in an
\* order that varies from one call to the next.
PushBodyAnyOrder(body) ==
    /\ \E reversed \in BOOLEAN :
          response' = IF body.emitted
                      THEN Append(response,
                                  [name |-> OutputFile(body.message, body.mapping).name,
                                   content |-> Serialized(SerializeMapping(body.mapping),
                                                          reversed)])
                      ELSE response
    /\ diagnostics' = diagnostics \o body.message_diagnostics
    /\ bodies' = Append(bodies, body)

\* response.file.push(file) when emitted; diagnostics.extend(message_diagnostics).
PushBody(body) ==
    /\ response' = IF body.emitted
                   THEN Append(response, OutputFile(body.message, body.mapping))
                   ELSE response
    /\ diagnostics' = diagnostics \o body.message_diagnostics
    /\ bodies' = Append(bodies, body)

\* One turn of the loop over the messages of the current file.
ProcessMessage ==
    /\ pc = "message"
    /\ mi <= Len(FileMessages(Filename))
    /\ PushBody(MessageBody(Unwrap(ctx).target, Filename, FileMessages(Filename)[mi]))
    /\ mi' = mi + 1
    /\ UNCHANGED <<request, pc, ctx, fi, error, returned, first, gen_vars, stack>>

\* The messages of the current file are done: on to the next file name.
MessagesDone ==
    /\ pc = "message"
    /\ mi > Len(FileMessages(Filename))
    /\ pc' = "file"
    /\ fi' = fi + 1
    /\ UNCHANGED <<request, ctx, mi, response, diagnostics, bodies, error, returned, first, gen_vars, stack>>

Next ==
    \/ Start
    \/ StartErr
    \/ FileFound
    \/ FileMissing
    \/ FilesDone
    \/ ProcessMessage
    \/ MessagesDone


Spec == Init /\ [][Next]_vars

\* process is called again on the same request once it has returned; what the
\* first call returned is kept.
Rerun ==
    /\ pc \in {"ok", "err"}
    /\ first = None
    /\ first' = returned
    /\ pc' = "start"
    /\ ctx' = None
    /\ fi' = 0
    /\ mi' = 0
    /\ response' = <<>>
    /\ diagnostics' = <<>>
    /\ bodies' = <<>>
    /\ error' = None
    /\ returned' = None
    /\ UNCHANGED <<request, gen_vars, stack>>

NextTwice ==
    \/ Next
    \/ Rerun

\* Two calls of process on one request, one after the other.
SpecTwice == Init /\ [][NextTwice]_vars

----------------------------------------------------------------------------
(* protosearch-gen: merges into one message or extend block *)

\* The most calls of merge on the block.
MaxMerges == 3

\* The most fields of `other`.
MaxOther == 2

\* The fields `other` is made of; compile_into gives them the number 0, a
\* caller of the public merge any number.
FieldChoices ==
    {ProtoField(<<"a">>, "optional string", 0),
     ProtoField(<<"a">>, "optional int64", 0),
     ProtoField(<<"b">>, "optional string", 0),
     ProtoField(<<"c">>, "repeated string", 4)}

\* The field lists of `other`: in any order, no name twice.
Others ==
    {o \in UNION {[1..n -> FieldChoices] : n \in 0..MaxOther} :
        \A i, k \in DOMAIN o : i # k => o[i].name # o[k].name}

\* number_offset: the --number-offset argument for an extend block, any u32:
\* the least one and the default. (A message is merged with 1, which next_number
\* treats as it treats 100.)
Offsets == {0, 100}

\* The block before the first merge: the empty one compile_into pushes, or one
\* read from an existing file.
InitialBlocks ==
    {Block(<<>>, <<>>),
     Block(<<ProtoField(<<"a">>, "optional string", 1),
             ProtoField(<<"c">>, "repeated string", 4)>>, <<7>>)}

InitMerge ==
    /\ request = [file_to_generate |-> <<>>, parameter |-> <<>>, p_fields |-> DefaultPFields]
    /\ pc = "idle"
    /\ ctx = None
    /\ fi = 0
    /\ mi = 0
    /\ response = <<>>
    /\ diagnostics = <<>>
    /\ bodies = <<>>
    /\ error = None
    /\ returned = None
    /\ first = None
    /\ offset \in Offsets
    /\ block \in InitialBlocks
    /\ merges = <<>>
    /\ stack = <<>>

\* The block after the call, and the call in the history.
Store(other, ok, after) ==
    /\ block' = after
    /\ merges' = Append(merges, [before |-> block, other |-> other, ok |-> ok,
                                 panic |-> FALSE, after |-> after])

\* The call panics in next_number ("attempt to subtract with overflow") before
\* merge_fields has touched the block.
Panics(other) ==
    /\ block' = block
    /\ merges' = Append(merges, [before |-> block, other |-> other, ok |-> FALSE,
                                 panic |-> TRUE, after |-> block])

\* The end of merge_fields after its loop: the numbers left in current_fields
\* are pushed to reserved, the new fields are stored sorted by name.
Succeeds(other, st) ==
    /\ st.ok
    /\ \E order \in ValueOrders(st.current_fields) :
          Store(other, TRUE,
                Block(SortByName(st.new_fields, 1, <<>>), block.reserved \o order))

\* merge_fields returns Err from its loop: `fields` has been drained, reserved
\* is as it was.
Fails(other, st) ==
    /\ ~st.ok
    /\ Store(other, FALSE, Block(<<>>, block.reserved))

\* A call has panicked: the run is over.
Aborted == merges # <<>> /\ merges[Len(merges)].panic

\* Message::merge / ExtendBlock::merge returning Ok(()).
MergeOk ==
    /\ Len(merges) < MaxMerges
    /\ ~Aborted
    /\ \E other \in Others : Succeeds(other, merge_fields(block, other, offset))
    /\ UNCHANGED <<plugin_vars, offset, stack>>

\* Message::merge / ExtendBlock::merge returning Err(FieldConflict).
MergeErr ==
    /\ Len(merges) < MaxMerges
    /\ ~Aborted
    /\ \E other \in Others : Fails(other, merge_fields(block, other, offset))
    /\ UNCHANGED <<plugin_vars, offset, stack>>

\* Message::merge / ExtendBlock::merge in a build that checks arithmetic
\* overflow (the dev profile): number_offset - 1 panics.
MergePanic ==
    /\ Len(merges) < MaxMerges
    /\ ~Aborted
    /\ Underflows(offset)
    /\ \E other \in Others : Panics(other)
    /\ UNCHANGED <<plugin_vars, offset, stack>>

NextMerge ==
    \/ MergeOk
    \/ MergeErr
    \/ MergePanic

SpecMerge == InitMerge /\ [][NextMerge]_vars

----------------------------------------------------------------------------
(* plugin.rs: the recursion of compile_message and compile_field, call by call *)

\* The most frames of compile_message the thread's stack holds.
MaxDepth == 6

\* The top-level messages compile_message is called on.
DescentRoots ==
    {"r.Node", "r.Ping", "r.Pong", "r.Tree", "r.Loop",
     "t.Plain", "t.Bad", "t.Target", "t.Outer", "t.Wrap"}

\* The frame of a call of compile_message, at field `i` of its loop.
Frame(message, i) == [message |-> message, field |-> i]

InitDescent ==
    /\ request = [file_to_generate |-> <<>>, parameter |-> <<>>, p_fields |-> DefaultPFields]
    /\ pc = "compile"
    /\ ctx \in {Some([files_to_generate |-> <<>>, target |-> t]) : t \in {None, Some(s_foo)}}
    /\ fi = 0
    /\ mi = 0
    /\ response = <<>>
    /\ diagnostics = <<>>
    /\ bodies = <<>>
    /\ error = None
    /\ returned = None
    /\ first = None
    /\ offset = 1
    /\ block = Block(<<>>, <<>>)
    /\ merges = <<>>
    /\ stack \in {<<Frame(m, 1)>> : m \in DescentRoots}

\* The innermost call of compile_message and the fields it loops over.
TopFrame == stack[Len(stack)]

TopFields == MessageDescriptor(TopFrame.message).fields

\* The first match of compile_field returns Ok(None): the override selected by
\* the target is not a JSON object.
ReturnsEarly(entry) ==
    IsSome(entry)
    /\ ~(from_str(Unwrap(entry).json).ok /\ from_str(Unwrap(entry).json).value.t = "obj")

\* compile_field reaches its call of compile_message: the field is annotated,
\* the first match made a property, and the field embeds a message.
DescendsWith(target, field, found) ==
    /\ found # None
    /\ ~ReturnsEarly(FindTarget(target, Unwrap(found)))
    /\ IsSome(MappingType(field))

Descends(target, field) == DescendsWith(target, field, get_field_options(field))

\* compile_field returns to the loop of compile_message without having called
\* compile_message: the loop goes on with the next field.
FieldReturns ==
    /\ pc = "compile"
    /\ TopFrame.field <= Len(TopFields)
    /\ ~Descends(Unwrap(ctx).target, TopFields[TopFrame.field])
    /\ stack' = [stack EXCEPT ![Len(stack)].field = @ + 1]
    /\ UNCHANGED <<plugin_vars, gen_vars>>

\* compile_field calls compile_message on the message the field embeds.
FieldDescends ==
    /\ pc = "compile"
    /\ TopFrame.field <= Len(TopFields)
    /\ Descends(Unwrap(ctx).target, TopFields[TopFrame.field])
    /\ Len(stack) < MaxDepth
    /\ stack' = Append(stack, Frame(TopFields[TopFrame.field].desc, 1))
    /\ UNCHANGED <<plugin_vars, gen_vars>>

\* The same call when the stack has no room for another frame: the thread
\* overflows its stack and the process is aborted.
StackOverflow ==
    /\ pc = "compile"
    /\ TopFrame.field <= Len(TopFields)
    /\ Descends(Unwrap(ctx).target, TopFields[TopFrame.field])
    /\ Len(stack) >= MaxDepth
    /\ pc' = "overflow"
    /\ UNCHANGED <<request, ctx, fi, mi, response, diagnostics, bodies, error, returned,
                   first, gen_vars, stack>>

\* The loop of the innermost compile_message is over: Ok(mapping) goes back to
\* compile_field, which returns to the loop of the caller.
NestedReturns ==
    /\ pc = "compile"
    /\ Len(stack) > 1
    /\ TopFrame.field > Len(TopFields)
    /\ stack' = [SubSeq(stack, 1, Len(stack) - 1) EXCEPT ![Len(stack) - 1].field = @ + 1]
    /\ UNCHANGED <<plugin_vars, gen_vars>>

\* The outermost compile_message returns Ok(mapping) to process.
RootReturns ==
    /\ pc = "compile"
    /\ Len(stack) = 1
    /\ TopFrame.field > Len(TopFields)
    /\ stack' = <<>>
    /\ pc' = "compiled"
    /\ UNCHANGED <<request, ctx, fi, mi, response, diagnostics, bodies, error, returned,
                   first, gen_vars>>

NextDescent ==
    \/ FieldReturns
    \/ FieldDescends
    \/ StackOverflow
    \/ NestedReturns
    \/ RootReturns

\* One call of compile_message on a top-level message, followed call by call.
SpecDescent == InitDescent /\ [][NextDescent]_vars

----------------------------------------------------------------------------
(* Properties of process: emission *)

\* A mapping is non-empty: at least one property, or index options.
NonEmpty(mapping) == DOMAIN mapping.properties # {} \/ mapping.index # None

\* The number of diagnostics of severity `severity` in a sequence.
Count(ds, severity) == Cardinality({i \in 1..Len(ds) : ds[i].severity = severity})

\* The turn of the loop recorded in `body` had to append an output entry.
MustEmit(body) == NonEmpty(body.mapping) /\ Count(body.message_diagnostics, "Error") = 0

\* The names of the entries the recorded turns had to append, in order.
RECURSIVE ExpectedNames(_)
ExpectedNames(bs) ==
    IF bs = <<>> THEN <<>>
    ELSE (IF MustEmit(Head(bs))
          THEN <<[full_name |-> Head(bs).message, ext |-> "json"]>>
          ELSE <<>>) \o ExpectedNames(Tail(bs))

\* C1: for every top-level message processed, an entry named
\* <message-full-name>.json is appended if and only if the compiled mapping is
\* non-empty (a property, or index options) and no diagnostic collected for the
\* message is an Error; Warnings alone never prevent it.  The entries of the
\* response are exactly those of the turns that had to emit, in order.
C1_EmitIffNonEmptyAndNoError ==
    /\ \A i \in 1..Len(bodies) : bodies[i].emitted <=> MustEmit(bodies[i])
    /\ [i \in 1..Len(response) |-> response[i].name] = ExpectedNames(bodies)

\* C1 witness: a finished run in which one message with Warnings only was
\* emitted, one non-empty message with an Error was not, and an empty one
\* without diagnostics was not.
C1_Witness ==
    /\ pc = "ok"
    /\ \E i \in 1..Len(bodies) :
          /\ bodies[i].emitted
          /\ Count(bodies[i].message_diagnostics, "Warning") > 0
          /\ \E k \in 1..Len(response) : response[k].name.full_name = bodies[i].message
    /\ \E i \in 1..Len(bodies) :
          /\ ~bodies[i].emitted
          /\ NonEmpty(bodies[i].mapping)
          /\ Count(bodies[i].message_diagnostics, "Error") > 0
    /\ \E i \in 1..Len(bodies) :
          /\ ~bodies[i].emitted
          /\ bodies[i].message_diagnostics = <<>>

\* The top-level messages of the files of a list, in iteration order.
RECURSIVE MessagesOf(_)
MessagesOf(files) ==
    IF files = <<>> THEN <<>>
    ELSE FileMessages(Head(files)) \o MessagesOf(Tail(files))

\* The entries of the response named after `message`.
EntriesFor(message) == {k \in 1..Len(response) : response[k].name.full_name = message}

\* The recorded turns for `message`.
TurnsFor(message) == {i \in 1..Len(bodies) : bodies[i].message = message}

\* C2: error isolation.  When process returns Ok, every top-level message of
\* the requested files has had its turn; a message with an Error diagnostic has
\* no entry, every non-empty message without an Error of its own has one entry
\* per turn, wherever the failing messages stand in the order; and the
\* diagnostics returned are those of all messages.
C2_ErrorIsolation ==
    pc = "ok" =>
        /\ error = None
        /\ [i \in 1..Len(bodies) |-> bodies[i].message] = MessagesOf(request.file_to_generate)
        /\ \A i \in 1..Len(bodies) :
              IF Count(bodies[i].message_diagnostics, "Error") > 0
              THEN EntriesFor(bodies[i].message) = {}
              ELSE NonEmpty(bodies[i].mapping) =>
                      Cardinality(EntriesFor(bodies[i].message))
                          = Cardinality(TurnsFor(bodies[i].message))
        /\ diagnostics = Flatten([i \in 1..Len(bodies) |-> bodies[i].message_diagnostics])

\* C2 witness: a finished run in which a message with an Error stands between
\* two messages that were emitted.
C2_Witness ==
    /\ pc = "ok"
    /\ \E i, j, k \in 1..Len(bodies) :
          /\ i < j /\ j < k
          /\ Count(bodies[j].message_diagnostics, "Error") > 0
          /\ EntriesFor(bodies[j].message) = {}
          /\ bodies[i].emitted /\ EntriesFor(bodies[i].message) # {}
          /\ bodies[k].emitted /\ EntriesFor(bodies[k].message) # {}

----------------------------------------------------------------------------
(* Properties of compile_field, read off the turn of the loop that ran last: *)
(* every turn is the last one in some state.                                *)

Turned == bodies # <<>>

LastBody == bodies[Len(bodies)]

\* ctx.target() of the run.
RunTarget == Unwrap(ctx).target

FieldsOf(message) ==
    {MessageDescriptor(message).fields[i] : i \in 1..Len(MessageDescriptor(message).fields)}

\* What compile_field returned and pushed for a field in the last turn.
Call(f) == compile_field(RunTarget, f, LastBody.filename)

\* The field is a singular or repeated embedded message.
IsEmbedded(f) == f.card \in {"Singular", "Repeated"} /\ f.kind = "Message"

\* The field's options carry a (protosearch.field) annotation.
Annotated(f) ==
    \E i \in 1..Len(f.unknown_fields) :
        /\ f.unknown_fields[i].number = EXTENSION_NUMBER
        /\ f.unknown_fields[i].wire = "LengthDelimited"

\* The fields compile_field is called on when `message` is compiled: its own,
\* and those of the messages embedded by the fields that compile to a property.
RECURSIVE CompiledUnder(_)
CompiledUnder(message) ==
    FieldsOf(message)
    \cup UNION {CompiledUnder(f.desc) :
                   f \in {g \in FieldsOf(message) : IsEmbedded(g) /\ Call(g).entry # None}}

\* The fields compile_field was called on in the last turn.
CompiledFields == IF Turned THEN CompiledUnder(LastBody.message) ELSE {}

\* The mapping of a message and the sub-mappings of its Objects, at any depth.
RECURSIVE MappingsIn(_)
MappingsIn(mapping) ==
    {mapping}
    \cup UNION {MappingsIn(mapping.properties[n].properties) :
                   n \in {k \in DOMAIN mapping.properties : mapping.properties[k].tag = "Object"}}

\* The mappings recorded by the last turn.
RecordedMappings == IF Turned THEN MappingsIn(LastBody.mapping) ELSE {}

\* The diagnostics compile_field pushed for the field itself, without those of
\* the message it embeds.
OwnDiagnostics(f) ==
    SelectSeq(Call(f).diagnostics,
              LAMBDA d : d.kind.field = f.name /\ d.kind.message = MessageDescriptor(f.msg).name)

\* Some field of the embedded message compiles to a property.
SubMappingHasProperty(f) == \E g \in FieldsOf(f.desc) : Call(g).entry # None

\* C3: a property is an Object if and only if its field is a singular or
\* repeated embedded message whose compiled sub-mapping has at least one
\* property, and is a Leaf otherwise; no Object, at any depth of a recorded
\* mapping, carries an empty set of nested properties.
C3_ObjectIffNonEmptyEmbedded ==
    /\ \A f \in CompiledFields :
          Call(f).entry # None =>
              LET prop == Unwrap(Call(f).entry).property
              IN  IF IsEmbedded(f) /\ SubMappingHasProperty(f)
                  THEN /\ prop.tag = "Object"
                       /\ prop.properties.descriptor = Some(f.desc)
                       /\ DOMAIN prop.properties.properties # {}
                  ELSE prop.tag = "Leaf"
    /\ \A mp \in RecordedMappings :
          \A n \in DOMAIN mp.properties :
              /\ mp.properties[n].tag \in {"Leaf", "Object"}
              /\ mp.properties[n].tag = "Object" =>
                    /\ DOMAIN mp.properties[n].properties.properties # {}
                    /\ SerializeProperty(mp.properties[n]).v["properties"].v # <<>>

\* C3 witness: the last turn compiled an embedded message with properties to
\* an Object, and an embedded message without any, a map and a scalar to Leafs.
C3_Witness ==
    /\ \E f \in CompiledFields :
          /\ IsEmbedded(f) /\ Call(f).entry # None
          /\ Unwrap(Call(f).entry).property.tag = "Object"
          /\ f.card = "Repeated"
    /\ \E f \in CompiledFields :
          /\ IsEmbedded(f) /\ Call(f).entry # None
          /\ Unwrap(Call(f).entry).property.tag = "Leaf"
    /\ \E f \in CompiledFields :
          /\ f.card = "Map" /\ Call(f).entry # None
          /\ Unwrap(Call(f).entry).property.tag = "Leaf"
    /\ \E name \in DOMAIN LastBody.mapping.properties :
          LastBody.mapping.properties[name].tag = "Object"

\* The names an annotated field can be inserted under: its declared name and
\* the name overrides of its annotation.
NamesOf(f) ==
    {f.name}
    \cup {Unwrap(f.unknown_fields[i].payload.name) :
             i \in {k \in 1..Len(f.unknown_fields) : f.unknown_fields[k].payload.name # None}}

\* C4: a field without annotation gets no property and no diagnostic, whatever
\* its type and the active target: compile_field returns None and pushes
\* nothing; every property of a recorded mapping comes from an annotated field
\* of its message; every recorded diagnostic names an annotated field.
C4_UnannotatedIsSilent ==
    /\ \A f \in CompiledFields :
          ~Annotated(f) => Call(f).entry = None /\ Call(f).diagnostics = <<>>
    /\ \A mp \in RecordedMappings :
          \A n \in DOMAIN mp.properties :
              \E f \in FieldsOf(Unwrap(mp.descriptor)) : Annotated(f) /\ n \in NamesOf(f)
    /\ Turned =>
          \A i \in 1..Len(LastBody.message_diagnostics) :
              \E f \in CompiledFields :
                  /\ Annotated(f)
                  /\ LastBody.message_diagnostics[i].kind.field = f.name
                  /\ LastBody.message_diagnostics[i].kind.message
                        \in {MessageDescriptor(f.msg).name, MessageDescriptor(f.msg).full_name}

\* C4 witness: with a target active, the last turn met an unannotated embedded
\* message field and an unannotated scalar next to annotated fields, recorded
\* properties and diagnostics, and none under the unannotated fields' names.
C4_Witness ==
    /\ Turned
    /\ RunTarget # None
    /\ LastBody.message_diagnostics # <<>>
    /\ DOMAIN LastBody.mapping.properties # {}
    /\ \E f \in FieldsOf(LastBody.message) :
          ~Annotated(f) /\ IsEmbedded(f) /\ f.name \notin DOMAIN LastBody.mapping.properties
    /\ \E f \in CompiledFields :
          ~Annotated(f) /\ ~IsEmbedded(f) /\ f.unknown_fields = <<>>

\* The type the inference table gives each runtime type.
TypeTable ==
    [I32 |-> "integer", I64 |-> "long", U32 |-> "long", U64 |-> "unsigned_long",
     F32 |-> "float", F64 |-> "double", Bool |-> "boolean", String |-> "keyword",
     VecU8 |-> "binary", Enum |-> "keyword", Message |-> "object"]

\* The type inferred for a field: "object" for a map, otherwise the table on
\* the type of the field, or of its elements when it is repeated.
TableType(f) == IF f.card = "Map" THEN "object" ELSE TypeTable[f.kind]

\* The active target matches an override of the field.
Overridden(f) ==
    /\ RunTarget # None
    /\ \E i \in 1..Len(Unwrap(get_field_options(f)).target) :
          Unwrap(get_field_options(f)).target[i].label = Unwrap(RunTarget)

\* The explicit mapping type of the annotation, None if it sets none.
ExplicitType(f) ==
    IF Unwrap(get_field_options(f)).mapping = None THEN None
    ELSE Unwrap(Unwrap(get_field_options(f)).mapping).type

\* The value under "type" in the JSON parameters emitted for a property.
EmittedType(prop) == SerializeProperty(prop).v["type"]

\* C5: for every annotated field without matching target override, the emitted
\* `type` is the explicit mapping type when the annotation sets one, and
\* otherwise the type the inference table gives the field's runtime shape.
C5_TypeInference ==
    \A f \in CompiledFields :
        (Annotated(f) /\ ~Overridden(f)) =>
            /\ Call(f).entry # None
            /\ "type" \in DOMAIN SerializeProperty(Unwrap(Call(f).entry).property).v
            /\ EmittedType(Unwrap(Call(f).entry).property)
                  = JStr(IF ExplicitType(f) # None THEN Unwrap(ExplicitType(f)) ELSE TableType(f))

\* C5 witness: the last turn compiled an annotated unsigned 32-bit field
\* without explicit type, and recorded the inferred type long for it.
C5_Witness ==
    \E f \in CompiledFields :
        /\ Annotated(f) /\ ~Overridden(f) /\ ExplicitType(f) = None
        /\ f.kind = "U32"
        /\ LastBody.mapping.properties[f.name].parameters.inferred_type = Some("long")

\* The overrides of an annotated field, in declaration order.
Overrides(f) == Unwrap(get_field_options(f)).target

\* The indices of the overrides of the field that carry the active label.
Matching(f) ==
    IF RunTarget = None THEN {}
    ELSE {i \in 1..Len(Overrides(f)) : Overrides(f)[i].label = Unwrap(RunTarget)}

\* The first override of the field with the active label.
FirstMatching(f) == Overrides(f)[CHOOSE i \in Matching(f) : \A j \in Matching(f) : i <= j]

\* compile_field made a property whose parameters are exactly the JSON object
\* of the override, and pushed no diagnostic for the field.
CompiledToOverride(f, override) ==
    /\ Call(f).entry # None
    /\ Unwrap(Call(f).entry).property.parameters = [tag |-> "Raw", map |-> from_str(override.json).value.v]
    /\ parameters_to_map(Unwrap(Call(f).entry).property.parameters) = from_str(override.json).value.v
    /\ OwnDiagnostics(f) = <<>>

ParsesToObject(text) == from_str(text).ok /\ from_str(text).value.t = "obj"

\* C6 as stated: whenever some override with the active label parses to a JSON
\* object, the property's parameters are exactly that object and the compiler
\* pushes no diagnostic for the field.
C6_SomeMatchingOverrideWins ==
    \A f \in CompiledFields :
        Annotated(f) =>
            \A i \in Matching(f) :
                ParsesToObject(Overrides(f)[i].json) => CompiledToOverride(f, Overrides(f)[i])

\* C6, amended: when the first override with the active label, in declaration
\* order, parses to a JSON object, the property's parameters are exactly that
\* object (no default-rule parameter, no inferred type) and the compiler
\* pushes no diagnostic for the field; later overrides with the label are
\* not consulted.
C6_FirstMatchingOverrideWins ==
    \A f \in CompiledFields :
        (Annotated(f) /\ Matching(f) # {} /\ ParsesToObject(FirstMatching(f).json)) =>
            CompiledToOverride(f, FirstMatching(f))

\* C6 witness: with target foo, the last turn compiled a field whose annotation
\* sets type keyword and ignore_above and overrides foo with {"type":"text"}:
\* the recorded property serializes to exactly that object.
C6_Witness ==
    \E f \in CompiledFields :
        /\ Annotated(f) /\ Matching(f) # {}
        /\ Unwrap(get_field_options(f)).mapping # None
        /\ Unwrap(Unwrap(get_field_options(f)).mapping).ignore_above # None
        /\ FirstMatching(f).json = j_text
        /\ f.name \in DOMAIN LastBody.mapping.properties
        /\ SerializeProperty(LastBody.mapping.properties[f.name])
              = JObj(MapInsert(EmptyMap, "type", JStr("text")))
        /\ LastBody.message_diagnostics = <<>>

\* The Error compile_field pushes for a bad override of the field.
OverrideError(f, tag, label) ==
    [severity |-> "Error",
     kind |-> [tag |-> tag, message |-> MessageDescriptor(f.msg).name,
               field |-> f.name, label |-> label],
     location |-> Some([file |-> LastBody.filename, span |-> from_field(f)])]

\* The top-level fields of the message of the last turn, in declaration order.
LastFields == MessageDescriptor(LastBody.message).fields

\* The diagnostics compile_message pushed in the last turn.
CompileDiagnostics == Flatten([i \in 1..Len(LastFields) |-> Call(LastFields[i]).diagnostics])

\* C7: when the override selected by the active target does not parse, the
\* compiler pushes the Error InvalidTargetJson, and when it parses to a value
\* that is not an object, the Error InvalidTargetJsonType; the diagnostic names
\* the owning message, the field and the label and is located at the field, no
\* property is made for the field, and the other fields of the message are
\* compiled all the same: the recorded mapping holds the properties of all
\* fields that have one, the recorded diagnostics begin with those of all.
C7_BadOverrideIsAnError ==
    /\ \A f \in CompiledFields :
          (Annotated(f) /\ Matching(f) # {} /\ ~ParsesToObject(FirstMatching(f).json)) =>
              /\ Call(f).entry = None
              /\ Call(f).diagnostics
                    = <<OverrideError(f, IF from_str(FirstMatching(f).json).ok
                                         THEN "InvalidTargetJsonType"
                                         ELSE "InvalidTargetJson",
                                      FirstMatching(f).label)>>
    /\ Turned =>
          /\ DOMAIN LastBody.mapping.properties
                = {Unwrap(Call(LastFields[i]).entry).name :
                      i \in {k \in 1..Len(LastFields) : Call(LastFields[k]).entry # None}}
          /\ Len(LastBody.message_diagnostics) >= Len(CompileDiagnostics)
          /\ SubSeq(LastBody.message_diagnostics, 1, Len(CompileDiagnostics)) = CompileDiagnostics

\* C7 witness: the last turn met a field whose override does not parse, then
\* one whose override is an array, then a field that was compiled: both Errors
\* are recorded, located at their fields, and so is the property of the third.
C7_Witness ==
    /\ Turned
    /\ \E i, j, k \in 1..Len(LastFields) :
          /\ i < j /\ j < k
          /\ LastFields[i].name \notin DOMAIN LastBody.mapping.properties
          /\ LastFields[j].name \notin DOMAIN LastBody.mapping.properties
          /\ LastFields[k].name \in DOMAIN LastBody.mapping.properties
          /\ \E a, b \in 1..Len(LastBody.message_diagnostics) :
                /\ a < b
                /\ LastBody.message_diagnostics[a].severity = "Error"
                /\ LastBody.message_diagnostics[a].kind.tag = "InvalidTargetJson"
                /\ LastBody.message_diagnostics[a].kind.field = LastFields[i].name
                /\ LastBody.message_diagnostics[a].location[1].span # None
                /\ LastBody.message_diagnostics[b].severity = "Error"
                /\ LastBody.message_diagnostics[b].kind.tag = "InvalidTargetJsonType"
                /\ LastBody.message_diagnostics[b].kind.field = LastFields[j].name
    /\ ~LastBody.emitted

\* The mapping of the annotation, the default one when it sets none.
AnnotationMapping(f) ==
    IF Unwrap(get_field_options(f)).mapping = None
    THEN [type |-> None, ignore_above |-> None, position_increment_gap |-> None,
          index_prefixes |-> None]
    ELSE Unwrap(Unwrap(get_field_options(f)).mapping)

\* The Warning compile_field pushes for a target the field does not declare.
UnknownTargetWarning(f) ==
    [severity |-> "Warning",
     kind |-> [tag |-> "UnknownTarget", message |-> MessageDescriptor(f.msg).name,
               field |-> f.name, label |-> Unwrap(RunTarget)],
     location |-> Some([file |-> LastBody.filename, span |-> from_field(f)])]

\* A target is active, the field declares overrides, none has the active label.
TargetUnknown(f) == RunTarget # None /\ Overrides(f) # <<>> /\ Matching(f) = {}

\* C8: the compiler pushes an UnknownTarget Warning for an annotated field if
\* and only if a target is active, no override of the field has its label and
\* the field declares at least one override; then, and also when the field
\* declares no override (where nothing is pushed), the field compiles to its
\* default-rule property: the parameters of its annotation.
C8_UnknownTargetWarning ==
    \A f \in CompiledFields :
        Annotated(f) =>
            /\ (\E i \in 1..Len(OwnDiagnostics(f)) : OwnDiagnostics(f)[i].kind.tag = "UnknownTarget")
                  <=> TargetUnknown(f)
            /\ TargetUnknown(f) => OwnDiagnostics(f) = <<UnknownTargetWarning(f)>>
            /\ Overrides(f) = <<>> => OwnDiagnostics(f) = <<>>
            /\ (TargetUnknown(f) \/ Overrides(f) = <<>>) =>
                  /\ Call(f).entry # None
                  /\ Unwrap(Call(f).entry).property.parameters.tag = "Typed"
                  /\ Unwrap(Call(f).entry).property.parameters.field_mapping = AnnotationMapping(f)

\* C8 witness: with a target active, the last turn compiled a field declaring
\* only other targets, with a Warning, and a field declaring none, silently;
\* the default-rule properties of both are recorded.
C8_Witness ==
    /\ Turned
    /\ \E f \in FieldsOf(LastBody.message) :
          /\ Annotated(f) /\ TargetUnknown(f)
          /\ \E i \in 1..Len(LastBody.message_diagnostics) :
                LastBody.message_diagnostics[i] = UnknownTargetWarning(f)
          /\ f.name \in DOMAIN LastBody.mapping.properties
          /\ LastBody.mapping.properties[f.name].parameters.field_mapping = AnnotationMapping(f)
          /\ AnnotationMapping(f).type # None
    /\ \E f \in FieldsOf(LastBody.message) :
          /\ Annotated(f) /\ RunTarget # None /\ Overrides(f) = <<>>
          /\ f.name \in DOMAIN LastBody.mapping.properties
          /\ LastBody.mapping.properties[f.name].parameters.tag = "Typed"

LowerCase ==
    {"a", "b", "c", "d", "e", "f", "g", "h", "i", "j", "k", "l", "m",
     "n", "o", "p", "q", "r", "s", "t", "u", "v", "w", "x", "y", "z"}

NameChars == LowerCase \cup {"0", "1", "2", "3", "4", "5", "6", "7", "8", "9", "_"}

\* The names ^[@a-z][a-z0-9_]*(\.[a-z0-9_]+)*$ describes: a first character
\* that is @ or a lower-case letter, then name characters and dots, each dot
\* followed by a name character.
ValidName(s) ==
    /\ s # <<>>
    /\ s[1] \in LowerCase \cup {"@"}
    /\ \A i \in 2..Len(s) :
          \/ s[i] \in NameChars
          \/ s[i] = "." /\ i < Len(s) /\ s[i + 1] \in NameChars

\* The last turn recorded a Warning InvalidFieldName for the output name
\* `name` of a property of `message`.
WarnedName(message, name) ==
    \E i \in 1..Len(LastBody.message_diagnostics) :
        /\ LastBody.message_diagnostics[i].severity = "Warning"
        /\ LastBody.message_diagnostics[i].kind.tag = "InvalidFieldName"
        /\ LastBody.message_diagnostics[i].kind.message = message
        /\ LastBody.message_diagnostics[i].kind.name = name

\* C9: a Warning InvalidFieldName is recorded for a property exactly when its
\* output name does not match the pattern, for every property at every depth
\* of the recorded mapping, those made from a target override included; valid,
\* valid_name, field1, @timestamp and object.field match, the empty name,
\* Title, 1field and field-name do not.
C9_InvalidNameWarning ==
    /\ \A mp \in RecordedMappings :
          \A n \in DOMAIN mp.properties :
              WarnedName(Unwrap(mp.descriptor), n) <=> ~ValidName(n)
    /\ Turned =>
          \A i \in 1..Len(LastBody.message_diagnostics) :
              LastBody.message_diagnostics[i].kind.tag = "InvalidFieldName" =>
                  /\ LastBody.message_diagnostics[i].severity = "Warning"
                  /\ \E mp \in RecordedMappings :
                        /\ mp.descriptor = Some(LastBody.message_diagnostics[i].kind.message)
                        /\ LastBody.message_diagnostics[i].kind.name \in DOMAIN mp.properties
    /\ \A s \in {s_valid, s_valid_name, s_field1, s_at_timestamp, s_object_field} :
          ValidName(s) /\ RE_is_match(s)
    /\ \A s \in {s_empty, s_Title, s_1field, s_field_hyphen_name} :
          ~ValidName(s) /\ ~RE_is_match(s)

\* C9 witness: the last turn recorded the properties valid, valid_name,
\* field1, @timestamp and object.field without Warning and the properties "",
\* Title, 1field and field-name with one; an earlier turn of the run recorded
\* one for a property of an embedded message.
C9_Witness ==
    /\ Turned
    /\ {s_valid, s_valid_name, s_field1, s_at_timestamp, s_object_field,
        s_empty, s_Title, s_1field, s_field_hyphen_name} = DOMAIN LastBody.mapping.properties
    /\ \A s \in {s_valid, s_valid_name, s_field1, s_at_timestamp, s_object_field} :
          ~WarnedName(LastBody.message, s)
    /\ \A s \in {s_empty, s_Title, s_1field, s_field_hyphen_name} :
          WarnedName(LastBody.message, s)
    /\ \E i \in 1..Len(bodies) :
          \E k \in 1..Len(bodies[i].message_diagnostics) :
              /\ bodies[i].message_diagnostics[k].kind.tag = "InvalidFieldName"
              /\ bodies[i].message_diagnostics[k].kind.message # bodies[i].message

\* The name override of the field's annotation, None when it sets none.
NameOverride(f) == Unwrap(get_field_options(f)).name

\* C10 as stated: the output name of an annotated field is the name override
\* if that is non-empty and otherwise the declared name; an override set to
\* the empty string falls back to the declared name.
C10_OverrideIfNonEmpty ==
    \A f \in CompiledFields :
        Call(f).entry # None =>
            Unwrap(Call(f).entry).name
                = IF NameOverride(f) # None /\ Unwrap(NameOverride(f)) # <<>>
                  THEN Unwrap(NameOverride(f))
                  ELSE f.name

\* C10, amended: the output name of an annotated field is the name override
\* whenever the annotation sets one, the empty string included, and the
\* declared name only when it sets none; the property is recorded under it.
C10_OverrideIfSet ==
    /\ \A f \in CompiledFields :
          Call(f).entry # None =>
              Unwrap(Call(f).entry).name
                  = IF NameOverride(f) # None THEN Unwrap(NameOverride(f)) ELSE f.name
    /\ Turned =>
          \A i \in 1..Len(LastFields) :
              Call(LastFields[i]).entry # None =>
                  (IF NameOverride(LastFields[i]) # None
                   THEN Unwrap(NameOverride(LastFields[i]))
                   ELSE LastFields[i].name) \in DOMAIN LastBody.mapping.properties

\* C10 witness: the last turn compiled a field whose name override is the
\* empty string and one with a non-empty override, an earlier one a field
\* without override; the
\* first is recorded under the empty name and not under its declared name,
\* the last (in a turn of the same run) under its declared name.
C10_Witness ==
    /\ Turned
    /\ \E f \in FieldsOf(LastBody.message) :
          /\ Annotated(f) /\ NameOverride(f) = Some(<<>>)
          /\ <<>> \in DOMAIN LastBody.mapping.properties
          /\ f.name \notin DOMAIN LastBody.mapping.properties
    /\ \E f \in FieldsOf(LastBody.message) :
          /\ Annotated(f) /\ NameOverride(f) # None /\ NameOverride(f) # Some(<<>>)
          /\ Unwrap(NameOverride(f)) \in DOMAIN LastBody.mapping.properties
    /\ \E i \in 1..Len(bodies) :
          \E f \in FieldsOf(bodies[i].message) :
              /\ Annotated(f) /\ NameOverride(f) = None
              /\ f.name \in DOMAIN bodies[i].mapping.properties

----------------------------------------------------------------------------
(* Properties of the parameter checks *)

\* The properties of a mapping of `message` in the order the validator visits
\* them: by output name, the properties of an Object right after it.
RECURSIVE Walked(_, _)
Walked(message, mapping) ==
    Flatten([i \in 1..Len(SortedKeys(DOMAIN mapping.properties)) |->
        LET n == SortedKeys(DOMAIN mapping.properties)[i]
            prop == mapping.properties[n]
        IN  <<[message |-> message, name |-> n, property |-> prop]>>
            \o (IF prop.tag = "Object"
                THEN Walked(Unwrap(prop.properties.descriptor), prop.properties)
                ELSE <<>>)])

\* The properties the last turn recorded, in that order.
LastWalked == IF Turned THEN Walked(LastBody.message, LastBody.mapping) ELSE <<>>

\* The value the annotation's mapping of a property sets for a parameter,
\* None when it sets none.
ParameterValue(prop, parameter) ==
    IF prop.parameters.tag # "Typed" THEN None
    ELSE CASE parameter = "ignore_above" -> prop.parameters.field_mapping.ignore_above
           [] parameter = "position_increment_gap" ->
                 prop.parameters.field_mapping.position_increment_gap
           [] parameter = "index_prefixes.min_chars" ->
                 IF prop.parameters.field_mapping.index_prefixes = None THEN None
                 ELSE Unwrap(prop.parameters.field_mapping.index_prefixes).min_chars
           [] parameter = "index_prefixes.max_chars" ->
                 IF prop.parameters.field_mapping.index_prefixes = None THEN None
                 ELSE Unwrap(prop.parameters.field_mapping.index_prefixes).max_chars

\* The values a parameter may not take.
Forbidden(parameter, v) ==
    CASE parameter = "ignore_above" -> v <= 0
      [] parameter = "position_increment_gap" -> v < 0
      [] parameter = "index_prefixes.min_chars" -> v < 0
      [] parameter = "index_prefixes.max_chars" -> v < 0 \/ v > 20

\* The properties of the last turn whose parameter is set to a forbidden value.
Offending(parameter) ==
    SelectSeq(LastWalked,
              LAMBDA e : /\ ParameterValue(e.property, parameter) # None
                         /\ Forbidden(parameter, Unwrap(ParameterValue(e.property, parameter))))

\* The InvalidParameterValue diagnostics the last turn recorded for a parameter.
Reported(parameter) ==
    IF Turned
    THEN SelectSeq(LastBody.message_diagnostics,
                   LAMBDA d : d.kind.tag = "InvalidParameterValue" /\ d.kind.parameter = parameter)
    ELSE <<>>

\* The recorded diagnostics for a parameter are Errors, one for each offending
\* property, in the order of the walk and about the message of the property.
ReportedExactly(parameter) ==
    LET reported == Reported(parameter)
        offending == Offending(parameter)
    IN  /\ Len(reported) = Len(offending)
        /\ \A i \in 1..Len(reported) :
              /\ reported[i].severity = "Error"
              /\ reported[i].kind.message = offending[i].message

\* C11: an Error InvalidParameterValue for ignore_above is recorded for a
\* property exactly when its mapping sets ignore_above to a value <= 0; a
\* value of 1 or more, or no value, gives none.
C11_IgnoreAboveCheck == ReportedExactly("ignore_above")

\* C11 witness: the last turn recorded properties with ignore_above 0, -5, 1
\* and unset, and exactly two ignore_above Errors.
C11_Witness ==
    /\ Turned
    /\ \A v \in {Some(0), Some(-5), Some(1), None} :
          \E i \in 1..Len(LastWalked) :
              /\ LastWalked[i].message = LastBody.message
              /\ LastWalked[i].property.parameters.tag = "Typed"
              /\ ParameterValue(LastWalked[i].property, "ignore_above") = v
    /\ Len(Reported("ignore_above")) = 2
    /\ ~LastBody.emitted

\* C12: an Error InvalidParameterValue is recorded for position_increment_gap
\* exactly when it is set and < 0, for index_prefixes.min_chars exactly when it
\* is set and < 0, for index_prefixes.max_chars exactly when it is set and
\* outside 0..20, each parameter on its own; no other parameter is reported.
C12_RangeChecks ==
    /\ ReportedExactly("position_increment_gap")
    /\ ReportedExactly("index_prefixes.min_chars")
    /\ ReportedExactly("index_prefixes.max_chars")
    /\ Turned =>
          \A i \in 1..Len(LastBody.message_diagnostics) :
              LastBody.message_diagnostics[i].kind.tag = "InvalidParameterValue" =>
                  LastBody.message_diagnostics[i].kind.parameter
                      \in {"ignore_above", "position_increment_gap",
                           "index_prefixes.min_chars", "index_prefixes.max_chars"}

\* C12 witness: the last turn compiled a property with min_chars -1 and
\* max_chars 21 and recorded an Error for each.
C12_Witness ==
    /\ Turned
    /\ \E i \in 1..Len(LastWalked) :
          /\ ParameterValue(LastWalked[i].property, "index_prefixes.min_chars") = Some(-1)
          /\ ParameterValue(LastWalked[i].property, "index_prefixes.max_chars") = Some(21)
    /\ Len(Reported("index_prefixes.min_chars")) = 1
    /\ Len(Reported("index_prefixes.max_chars")) = 1
    /\ Len(Reported("position_increment_gap")) = 0

\* The range checks pass the values on the limits: the last turn compiled a
\* property with gap 0, min_chars 0 and max_chars 20, and one with gap -1, and
\* recorded one Error for the gap and none for index_prefixes.
C12_LimitsPass ==
    /\ Turned
    /\ \E i \in 1..Len(LastWalked) :
          /\ ParameterValue(LastWalked[i].property, "index_prefixes.min_chars") = Some(0)
          /\ ParameterValue(LastWalked[i].property, "index_prefixes.max_chars") = Some(20)
    /\ \E i \in 1..Len(LastWalked) :
          ParameterValue(LastWalked[i].property, "position_increment_gap") = Some(0)
    /\ \E i \in 1..Len(LastWalked) :
          ParameterValue(LastWalked[i].property, "position_increment_gap") = Some(-1)
    /\ Len(Reported("position_increment_gap")) = 1
    /\ LastBody.message = "t.Wrap"

----------------------------------------------------------------------------
(* Properties of process: request-fatal errors *)

\* A requested file name without a descriptor in the request.
MissingRequested ==
    {i \in 1..Len(request.file_to_generate) :
        request.file_to_generate[i] \notin FileNames}

\* C13: when a requested file name has no matching descriptor, what process
\* returns is Err(InvalidRequest) and nothing else: the value carries neither
\* response files nor diagnostics, whatever the turns before the missing name
\* have compiled and pushed.
C13_MissingDescriptorFails ==
    (returned # None /\ MissingRequested # {}) =>
        /\ Unwrap(returned) = [ok |-> FALSE, error |-> "InvalidRequest"]
        /\ DOMAIN Unwrap(returned) = {"ok", "error"}
        /\ pc = "err"

\* C13 witness: process has failed on a missing descriptor after an earlier
\* file was compiled, with a file pushed and diagnostics collected.
C13_Witness ==
    /\ returned = Some([ok |-> FALSE, error |-> "InvalidRequest"])
    /\ ctx # None
    /\ MissingRequested = {2}
    /\ response # <<>>
    /\ diagnostics # <<>>
    /\ \E i \in 1..Len(bodies) : bodies[i].emitted

\* The parameter string cut at its commas: the positions just before each
\* segment, and the segment that starts after position a.
Cuts(s) == {0} \cup {i \in 1..Len(s) : s[i] = ","}

NextCut(s, a) ==
    IF \E i \in Cuts(s) : i > a
    THEN CHOOSE i \in Cuts(s) : i > a /\ \A k \in Cuts(s) : k > a => i <= k
    ELSE Len(s) + 1

Segment(s, a) == SubSeq(s, a + 1, NextCut(s, a) - 1)

\* The starts of the segments that are not empty.
Segments(s) == {a \in Cuts(s) : Segment(s, a) # <<>>}

\* A segment of the form target=<v>, and its <v>.
IsTargetSegment(seg) ==
    Len(seg) >= 7 /\ SubSeq(seg, 1, 7) = <<"t","a","r","g","e","t","=">>

TargetValue(seg) == SubSeq(seg, 8, Len(seg))

LastSegment(s) == CHOOSE a \in Segments(s) : \A b \in Segments(s) : b <= a

\* What the parameter string asks for: a failure when any non-empty segment is
\* not target=<v>, otherwise the <v> of the last target segment, if any.
ExpectedConfig(s) ==
    IF \E a \in Segments(s) : ~IsTargetSegment(Segment(s, a))
    THEN [ok |-> FALSE, target |-> None]
    ELSE IF Segments(s) = {} THEN [ok |-> TRUE, target |-> None]
    ELSE [ok |-> TRUE, target |-> Some(TargetValue(Segment(s, LastSegment(s))))]

\* C14: the parameter string is split on commas and empty segments are
\* ignored; target=<v> sets the active target to <v>; any other segment fails
\* the whole request with InvalidRequest and no diagnostic, even after a valid
\* target segment; the empty string gives no active target.
C14_ParameterParsing ==
    /\ Config_try_from(request.parameter) = ExpectedConfig(request.parameter)
    /\ Config_try_from(<<>>) = [ok |-> TRUE, target |-> None]
    /\ pc # "start" =>
          IF ExpectedConfig(request.parameter).ok
          THEN /\ ctx # None
               /\ Unwrap(ctx).target = ExpectedConfig(request.parameter).target
          ELSE /\ pc = "err"
               /\ returned = Some([ok |-> FALSE, error |-> "InvalidRequest"])
               /\ diagnostics = <<>>
               /\ bodies = <<>>

\* C14 witness: the request with parameter "target=foo,unknown=bar" has failed
\* although it names a file that has a descriptor.
C14_Witness ==
    /\ request.parameter = s_target_eq \o s_foo \o s_comma \o s_unknown_eq_bar
    /\ request.file_to_generate = <<"tests.proto">>
    /\ pc = "err"
    /\ returned = Some([ok |-> FALSE, error |-> "InvalidRequest"])
    /\ diagnostics = <<>>

\* A run whose parameter ",target=foo," has empty segments compiles under the
\* target foo.
C14_EmptySegmentsIgnored ==
    /\ request.parameter = s_comma \o s_target_eq \o s_foo \o s_comma
    /\ pc = "ok"
    /\ Unwrap(ctx).target = Some(s_foo)
    /\ bodies # <<>>

----------------------------------------------------------------------------
(* Properties of compile_message: output names *)

\* The positions of the fields of the last message that compile to a property
\* under the output name `name`.
CompiledAs(name) ==
    {i \in 1..Len(LastFields) :
        LET made == Call(LastFields[i]).entry
        IN  made # None /\ Unwrap(made).name = name}

\* The output names the fields of the last message compile to.
OutputNames ==
    {Unwrap(Call(LastFields[i]).entry).name :
        i \in {k \in 1..Len(LastFields) : Call(LastFields[k]).entry # None}}

LatestAs(name) ==
    LET compiled == CompiledAs(name)
    IN  CHOOSE i \in compiled : \A k \in compiled : k <= i

\* The number of recorded properties, at any depth, whose name is not valid.
InvalidNames == Len(SelectSeq(LastWalked, LAMBDA e : ~ValidName(e.name)))

\* C15: when two annotated fields of a message resolve to the same output
\* name, the mapping has one property under that name, the one compiled from
\* the later-declared field, and no diagnostic is recorded for the collision:
\* the diagnostics of the message are those the fields pushed, followed by one
\* for each invalid name and each forbidden parameter value of the recorded
\* properties, and nothing else.
C15_LaterFieldWins ==
    Turned =>
        LET names == OutputNames
            pushed == CompileDiagnostics
        IN  /\ DOMAIN LastBody.mapping.properties = names
            /\ \A name \in names :
                  LastBody.mapping.properties[name]
                      = Unwrap(Call(LastFields[LatestAs(name)]).entry).property
            /\ Len(LastBody.message_diagnostics)
                  = Len(pushed) + InvalidNames
                    + Len(Offending("ignore_above"))
                    + Len(Offending("position_increment_gap"))
                    + Len(Offending("index_prefixes.min_chars"))
                    + Len(Offending("index_prefixes.max_chars"))
            /\ SubSeq(LastBody.message_diagnostics, 1, Len(pushed)) = pushed

\* C15 witness: fields f and g of p.P both compile under the name "f" to
\* different properties; the mapping has the single property of g, and the
\* message has no diagnostic and is emitted.
C15_Witness ==
    /\ Turned
    /\ LastBody.message = "p.P"
    /\ CompiledAs(<<"f">>) = {1, 2}
    /\ Unwrap(Call(LastFields[1]).entry).property
          # Unwrap(Call(LastFields[2]).entry).property
    /\ DOMAIN LastBody.mapping.properties = {<<"f">>}
    /\ LastBody.mapping.properties[<<"f">>] = Unwrap(Call(LastFields[2]).entry).property
    /\ LastBody.message_diagnostics = <<>>
    /\ LastBody.emitted

\* The earlier of two colliding fields carried a forbidden parameter value:
\* its property is overwritten and nothing is recorded about it.
C15_OverwrittenIsSilent ==
    /\ Turned
    /\ LastBody.message = "p.P"
    /\ CompiledAs(<<"f">>) = {1, 2}
    /\ ParameterValue(Unwrap(Call(LastFields[1]).entry).property, "ignore_above") = Some(0)
    /\ LastBody.message_diagnostics = <<>>

----------------------------------------------------------------------------
(* Properties of process: two calls on one request *)

\* The diagnostics of a returned value, as a set.
DiagnosticSet(r) == {r.diagnostics[i] : i \in 1..Len(r.diagnostics)}

\* Two returned values are the same result: both fail with the same error, or
\* both succeed with the same entries, each with the same name and the same
\* text, and with the same set of diagnostics.
SameResult(a, b) ==
    /\ a.ok = b.ok
    /\ ~a.ok => a.error = b.error
    /\ a.ok =>
          /\ Len(a.file) = Len(b.file)
          /\ \A i \in 1..Len(a.file) :
                /\ a.file[i].name = b.file[i].name
                /\ a.file[i].content = b.file[i].content
          /\ DiagnosticSet(a) = DiagnosticSet(b)

----------------------------------------------------------------------------
(* Properties of Span::from_field *)

\* The 0-based index of x in a sequence that holds it.
IndexIn(seq, x) == (CHOOSE i \in 1..Len(seq) : seq[i] = x) - 1

\* The path of a message in its file, root to leaf: [4, index among the
\* messages of the file], then [3, index among the nested messages of the
\* parent] for each level of nesting.
RECURSIVE PathTo(_)
PathTo(message) ==
    IF MessageDescriptor(message).parent = None
    THEN <<4, IndexIn(FileMessages(MessageDescriptor(message).file), message)>>
    ELSE PathTo(Unwrap(MessageDescriptor(message).parent))
         \o <<3, IndexIn(MessageDescriptor(Unwrap(MessageDescriptor(message).parent)).nested,
                        message)>>

\* The path of a field: that of its message, then [2, index among its fields].
FieldPath(f) ==
    PathTo(f.msg)
    \o <<2, IndexIn([i \in 1..Len(MessageDescriptor(f.msg).fields) |->
                        MessageDescriptor(f.msg).fields[i].number], f.number)>>

\* The entries of a source-position table whose path is exactly `path`.
EntriesAt(table, path) == {i \in 1..Len(table) : table[i].path = path}

\* The span a table gives for a path: that of its first entry with exactly
\* this path, none when no entry has it.
SpanIn(table, path) ==
    IF EntriesAt(table, path) = {} THEN None
    ELSE from_proto(table[CHOOSE i \in EntriesAt(table, path) :
                              \A k \in EntriesAt(table, path) : i <= k].span)

\* The span the table of the field's file gives for a field: none when the
\* file has no source info or no entry has the path of the field.
ExpectedSpan(f) ==
    IF HasSourceInfo(MessageDescriptor(f.msg).file)
    THEN SpanIn(SourceLocations(MessageDescriptor(f.msg).file), FieldPath(f))
    ELSE None

\* The fields a diagnostic of the last turn may be about: those with its field
\* name in a message with its message name (the compiler records the short name, the
\* validator the full name).
FieldsNamed(d) ==
    {f \in CompiledFields :
        /\ f.name = d.kind.field
        /\ d.kind.message \in {MessageDescriptor(f.msg).name, MessageDescriptor(f.msg).full_name}}

\* C17: the span of a field of a compiled message is that of the table entry whose path is exactly
\* [4, i] [3, k]... [2, j], root to leaf; when the file has no source info or
\* no entry has that path, there is no span.  Every recorded diagnostic has a
\* location, with the requested file and the span of its field, or with no
\* span.
C17_SpanByExactPath ==
    /\ \A f \in CompiledFields : from_field(f) = ExpectedSpan(f)
    /\ Turned =>
          \A i \in 1..Len(LastBody.message_diagnostics) :
              /\ LastBody.message_diagnostics[i].location # None
              /\ Unwrap(LastBody.message_diagnostics[i].location).file = LastBody.filename
              /\ Unwrap(LastBody.message_diagnostics[i].location).span
                    \in {ExpectedSpan(f) : f \in FieldsNamed(LastBody.message_diagnostics[i])}
                        \cup {None}
              /\ Unwrap(LastBody.message_diagnostics[i].location).span = None
                    => \A f \in FieldsNamed(LastBody.message_diagnostics[i]) :
                          ExpectedSpan(f) = None

\* The diagnostics recorded so far about the field `name` of a message with
\* full name `message`.
RecordedAbout(message, name) ==
    UNION {{bodies[i].message_diagnostics[k] :
               k \in {j \in 1..Len(bodies[i].message_diagnostics) :
                         /\ bodies[i].message_diagnostics[j].kind.field = name
                         /\ bodies[i].message_diagnostics[j].kind.message = message}} :
           i \in 1..Len(bodies)}

\* C17 witness: a run over tests.proto has recorded a diagnostic with a span
\* found under the six-element path of a field of the nested message
\* t.Outer.Inner, one without span for field ng of t.Bad, which has no entry,
\* and one without span for the field of u.Ext, whose file has no source info.
C17_Witness ==
    /\ FieldPath(m_Inner.fields[1]) = <<4, 5, 3, 0, 2, 0>>
    /\ \E d \in RecordedAbout("t.Outer.Inner", <<"b","f">>) :
          /\ Unwrap(d.location).span # None
          /\ Unwrap(d.location).span = ExpectedSpan(m_Inner.fields[1])
    /\ FieldPath(m_Bad.fields[3]) = <<4, 3, 2, 2>>
    /\ \E d \in RecordedAbout("t.Bad", <<"n","g">>) : Unwrap(d.location).span = None
    /\ \E d \in RecordedAbout("u.Ext", <<"e">>) : Unwrap(d.location).span = None

----------------------------------------------------------------------------
(* Properties of Span::from_proto *)

\* A recorded span read as the claim reads it: 0-based [l1, c1, l2, c2] or
\* [l1, c1, c2], turned into 1-based points; nothing for another length.
OneBased(span) ==
    CASE Len(span) = 4 ->
            Some([start |-> [line |-> span[1] + 1, column |-> span[2] + 1],
                  end |-> [line |-> span[3] + 1, column |-> span[4] + 1]])
      [] Len(span) = 3 ->
            Some([start |-> [line |-> span[1] + 1, column |-> span[2] + 1],
                  end |-> [line |-> span[1] + 1, column |-> span[3] + 1]])
      [] OTHER -> None

\* The spans recorded in the tables of the files of the request.
RecordedSpans ==
    UNION {LET locations == SourceLocations(file)
           IN  {locations[i].span : i \in 1..Len(locations)} :
              file \in FileNames \cap {request.file_to_generate[k] :
                                         k \in 1..Len(request.file_to_generate)}}

\* The spans of the diagnostics of the last turn.
LastSpans ==
    IF Turned
    THEN {Unwrap(LastBody.message_diagnostics[i].location).span :
             i \in 1..Len(LastBody.message_diagnostics)} \ {None}
    ELSE {}

\* C18: a recorded span of four elements [l1, c1, l2, c2] becomes start
\* (l1+1, c1+1), end (l2+1, c2+1); one of three elements [l1, c1, c2] becomes
\* start (l1+1, c1+1), end (l1+1, c2+1); one of another length gives no span.
\* Every point of the span of a recorded diagnostic has line >= 1 and
\* column >= 1, the recorded values being non-negative.
C18_OneBasedPoints ==
    /\ \A span \in RecordedSpans :
          /\ \A i \in 1..Len(span) : span[i] >= 0
          /\ from_proto(span) = OneBased(span)
    /\ LET converted == UNION {LET locations == SourceLocations(file)
                                IN  {OneBased(locations[i].span) : i \in 1..Len(locations)} :
                                   file \in FileNames}
       IN  \A sp \in LastSpans :
               /\ Unwrap(sp).start.line >= 1 /\ Unwrap(sp).start.column >= 1
               /\ Unwrap(sp).end.line >= 1 /\ Unwrap(sp).end.column >= 1
               /\ sp \in converted

\* C18 witness: a run over tests.proto has recorded, for field zero of t.Bad
\* (recorded span [62, 2, 30]), the span (63,3)-(63,31); for field bf of
\* t.Outer.Inner (recorded [111, 4, 112, 5]), the span (112,5)-(113,6); and no
\* span for the fields mn and mx of t.Bad, recorded with two and five elements.
C18_Witness ==
    /\ \E d \in RecordedAbout("t.Bad", <<"z","e","r","o">>) :
          Unwrap(d.location).span
              = Some([start |-> [line |-> 63, column |-> 3],
                      end |-> [line |-> 63, column |-> 31]])
    /\ \E d \in RecordedAbout("t.Outer.Inner", <<"b","f">>) :
          Unwrap(d.location).span
              = Some([start |-> [line |-> 112, column |-> 5],
                      end |-> [line |-> 113, column |-> 6]])
    /\ \E i, k \in 1..Len(SourceLocations("tests.proto")) :
          /\ SourceLocations("tests.proto")[i].path = FieldPath(m_Bad.fields[5])
          /\ Len(SourceLocations("tests.proto")[i].span) = 2
          /\ SourceLocations("tests.proto")[k].path = FieldPath(m_Bad.fields[6])
          /\ Len(SourceLocations("tests.proto")[k].span) = 5
    /\ \E d \in RecordedAbout("t.Bad", <<"m","n">>) : Unwrap(d.location).span = None
    /\ \E d \in RecordedAbout("t.Bad", <<"m","x">>) : Unwrap(d.location).span = None

----------------------------------------------------------------------------
(* Properties of the validator: attribution *)

\* The diagnostics validate added in the last turn.
ValidatorDiagnostics ==
    SubSeq(LastBody.message_diagnostics,
           Len(CompileDiagnostics) + 1, Len(LastBody.message_diagnostics))

\* The field is annotated and its output name is `name`.
ResolvesTo(f, name) ==
    /\ get_field_options(f) # None
    /\ name = IF Unwrap(get_field_options(f)).name # None
              THEN Unwrap(Unwrap(get_field_options(f)).name)
              ELSE f.name

\* The positions of the fields of a message that resolve to `name`.
Resolving(message, name) ==
    {i \in 1..Len(MessageDescriptor(message).fields) :
        ResolvesTo(MessageDescriptor(message).fields[i], name)}

\* The field the reverse-name index of `message` gives for the output name
\* `name`: the last declared one that resolves to it.
IndexedField(message, name) ==
    MessageDescriptor(message).fields
        [CHOOSE i \in Resolving(message, name) : \A k \in Resolving(message, name) : k <= i]

\* A diagnostic is attributed to a walked property: it carries the full name
\* of the message of the property, the declared name of the field the index
\* of that message gives for the property's name, and the span of that field.
AttributedTo(d, e) ==
    /\ Resolving(e.message, e.name) # {}
    /\ d.kind.message = MessageDescriptor(e.message).full_name
    /\ d.kind.field = IndexedField(e.message, e.name).name
    /\ d.location
          = Some([file |-> LastBody.filename,
                  span |-> ExpectedSpan(IndexedField(e.message, e.name))])
    /\ d.kind.tag = "InvalidFieldName" => d.kind.name = e.name /\ ~ValidName(e.name)
    /\ d.kind.tag = "InvalidParameterValue" =>
          /\ ParameterValue(e.property, d.kind.parameter) # None
          /\ Forbidden(d.kind.parameter, Unwrap(ParameterValue(e.property, d.kind.parameter)))

\* C19: a validator diagnostic for a property inside an Object is attributed
\* to the nested message: it carries the nested message's full name, the field
\* the nested message's own reverse-name index gives, and the span of that
\* field in the nested message.  Every validator diagnostic is attributed to a
\* walked property, and every property inside an Object whose name is invalid
\* has its diagnostic.
C19_NestedAttribution ==
    Turned =>
        LET found == ValidatorDiagnostics
            walked == LastWalked
            nested == SelectSeq(walked, LAMBDA e : e.message # LastBody.message)
        IN  /\ \A i \in 1..Len(found) :
                  \E k \in 1..Len(walked) : AttributedTo(found[i], walked[k])
            /\ \A k \in 1..Len(nested) :
                  ~ValidName(nested[k].name) =>
                      \E i \in 1..Len(found) :
                          /\ found[i].kind.tag = "InvalidFieldName"
                          /\ AttributedTo(found[i], nested[k])

\* C19 witness: the turn of t.Outer has recorded the warning for the property
\* BadField of the nested t.Outer.Inner, with the declared name bf and the span
\* of bf, which is not the span of the enclosing field of t.Outer.
C19_Witness ==
    /\ Turned
    /\ LastBody.message = "t.Outer"
    /\ \E i \in 1..Len(ValidatorDiagnostics) :
          /\ ValidatorDiagnostics[i].kind
                = InvalidFieldName("t.Outer.Inner", <<"b","f">>, s_BadField)
          /\ ValidatorDiagnostics[i].location
                = Some([file |-> "tests.proto", span |-> ExpectedSpan(m_Inner.fields[1])])
          /\ ExpectedSpan(m_Inner.fields[1]) # None
          /\ ExpectedSpan(m_Inner.fields[1]) # ExpectedSpan(m_Outer.fields[1])
          /\ ExpectedSpan(m_Inner.fields[1]) # ExpectedSpan(m_Outer.fields[2])

----------------------------------------------------------------------------
(* Properties of merge *)

\* The last call of merge on the block.
LastMerge == merges[Len(merges)]

NamesIn(fields) == {fields[i].name : i \in 1..Len(fields)}

\* The numbers of the fields called `name`.
NumbersOf(fields, name) ==
    {fields[i].number : i \in {k \in 1..Len(fields) : fields[k].name = name}}

Elems(seq) == {seq[i] : i \in 1..Len(seq)}

\* The numbers a block uses: those of its fields and its reserved ones.
UsedNumbers(b) == {b.fields[i].number : i \in 1..Len(b.fields)} \cup Elems(b.reserved)

\* What a successful merge of `other` into `before` must have made of it.
StableMerge(before, other, after) ==
    /\ NamesIn(after.fields) = NamesIn(other)
    /\ Len(after.fields) = Cardinality(NamesIn(other))
    /\ \A n \in NamesIn(before.fields) \cap NamesIn(other) :
          NumbersOf(after.fields, n) = NumbersOf(before.fields, n)
    /\ \A n \in NamesIn(before.fields) \ NamesIn(other) :
          /\ n \notin NamesIn(after.fields)
          /\ \E i \in (Len(before.reserved) + 1)..Len(after.reserved) :
                NumbersOf(before.fields, n) = {after.reserved[i]}
    /\ SubSeq(after.reserved, 1, Len(before.reserved)) = before.reserved
    /\ Len(after.reserved)
          = Len(before.reserved) + Cardinality(NamesIn(before.fields) \ NamesIn(other))
    /\ \A n \in NamesIn(other) \ NamesIn(before.fields) :
          /\ Cardinality(NumbersOf(after.fields, n)) = 1
          /\ NumbersOf(after.fields, n) \cap UsedNumbers(before) = {}
          /\ \A k \in NamesIn(other) \ {n} :
                NumbersOf(after.fields, n) \cap NumbersOf(after.fields, k) = {}
    /\ \A i, k \in 1..Len(after.fields) :
          i < k => StrLess(after.fields[i].name, after.fields[k].name)

\* C20: after a merge that succeeds, every field name present before and in
\* `other` has exactly its previous number; every field present before and
\* absent from `other` is gone from the fields and its number is appended to
\* reserved; every field new in `other` has a number that neither a field nor
\* reserved used before, different from that of every other field; the fields
\* are sorted by name.
C20_StableNumbers ==
    (merges # <<>> /\ LastMerge.ok) =>
        /\ block = LastMerge.after
        /\ StableMerge(LastMerge.before, LastMerge.other, LastMerge.after)

\* C20 witness: a second or later merge that succeeded kept a field, removed
\* one and added one.
C20_Witness ==
    /\ Len(merges) >= 2
    /\ LastMerge.ok
    /\ merges[Len(merges) - 1].ok
    /\ NamesIn(LastMerge.before.fields) \cap NamesIn(LastMerge.other) # {}
    /\ NamesIn(LastMerge.before.fields) \ NamesIn(LastMerge.other) # {}
    /\ NamesIn(LastMerge.other) \ NamesIn(LastMerge.before.fields) # {}
    /\ LastMerge.before.reserved # <<>>
    /\ block = LastMerge.after

\* The fields of `other` whose name a field of `before` has, with a different
\* number or a different type.
Differing(before, other) ==
    {i \in 1..Len(other) :
        \E k \in 1..Len(before.fields) :
            /\ before.fields[k].name = other[i].name
            /\ \/ before.fields[k].number # other[i].number
               \/ before.fields[k].typ # other[i].typ}

\* C21: a merge returns FieldConflict when a field of `other` has the name of an
\* existing field and another number or another type, and it succeeds when
\* every field of `other` that has the name of an existing field has its number
\* and its type too.
C21_ConflictOnNumberOrType ==
    (merges # <<>> /\ ~LastMerge.panic) =>
        (LastMerge.ok <=> Differing(LastMerge.before, LastMerge.other) = {})

\* C21, the part the code keeps: a merge returns FieldConflict exactly when a
\* field of `other` has the name of an existing field and another type.
C21_ConflictOnType ==
    (merges # <<>> /\ ~LastMerge.panic) =>
        (LastMerge.ok <=>
            \A i \in 1..Len(LastMerge.other) :
                \A k \in 1..Len(LastMerge.before.fields) :
                    LastMerge.before.fields[k].name = LastMerge.other[i].name
                        => LastMerge.before.fields[k].typ = LastMerge.other[i].typ)

\* C21 reached: both outcomes have happened, a merge that failed on a field of
\* another type and a merge that succeeded on a field of the same type whose
\* number in `other` is not the existing one.
C21_Witness ==
    /\ Len(merges) >= 2
    /\ ~merges[1].ok
    /\ LastMerge.ok
    /\ \E i \in 1..Len(LastMerge.other) :
          \E k \in 1..Len(LastMerge.before.fields) :
              /\ LastMerge.before.fields[k].name = LastMerge.other[i].name
              /\ LastMerge.before.fields[k].number # LastMerge.other[i].number

\* The fields of `other` whose name no field of `before` has, in the order of
\* `other`.
NewIn(before, other) ==
    SelectSeq(other, LAMBDA f : f.name \notin NamesIn(before.fields))

\* Where the claim says new fields start: at number_offset in a block without
\* fields and reserved numbers, else one above the largest number in use.
StartOf(before, number_offset) ==
    IF UsedNumbers(before) = {} THEN number_offset
    ELSE (CHOOSE n \in UsedNumbers(before) : \A k \in UsedNumbers(before) : k <= n) + 1

\* The new fields of a call have the consecutive numbers from StartOf on.
NumberedFromStart(m, number_offset) ==
    LET new == NewIn(m.before, m.other)
    IN  \A i \in 1..Len(new) :
            NumbersOf(m.after.fields, new[i].name)
                = {StartOf(m.before, number_offset) + (i - 1)}

\* C22: for every number_offset, 0 included, a call of merge computes its
\* numbers without underflow or overflow, so it returns; when it succeeds, the
\* new fields have the consecutive numbers number_offset, number_offset + 1,
\* ... in the order of `other` if the block had neither fields nor reserved
\* numbers, and else the consecutive numbers from one above the largest field
\* or reserved number.
C22_NewFieldsStartAtOffset ==
    merges # <<>> =>
        /\ ~LastMerge.panic
        /\ LastMerge.ok => NumberedFromStart(LastMerge, offset)

\* C22 for the offsets from 1 on: the same, and no call panics.
C22_FromPositiveOffset ==
    (merges # <<>> /\ offset >= 1) =>
        /\ ~LastMerge.panic
        /\ LastMerge.ok => NumberedFromStart(LastMerge, offset)

\* C22, where the build wraps: a call that returns Ok has numbered the new
\* fields as the claim says, for the offset 0 too.
C22_WhenReturning ==
    (merges # <<>> /\ LastMerge.ok) => NumberedFromStart(LastMerge, offset)

\* C22 reached: with the offset 100 two new fields were merged into an empty
\* block and a later merge added a field above the largest number in use.
C22_Witness ==
    /\ Len(merges) >= 2
    /\ offset = 100
    /\ merges[1].ok
    /\ UsedNumbers(merges[1].before) = {}
    /\ Len(merges[1].other) = 2
    /\ UsedNumbers(merges[1].after) = {100, 101}
    /\ LastMerge.ok
    /\ NewIn(LastMerge.before, LastMerge.other) # <<>>
    /\ UsedNumbers(LastMerge.before) # {}

\* C30: a merge that fails with FieldConflict leaves the block as it was: the
\* same fields with the same numbers and the same reserved numbers.
C30_FailedMergeKeepsBlock ==
    (merges # <<>> /\ ~LastMerge.ok /\ ~LastMerge.panic) =>
        /\ LastMerge.after = LastMerge.before
        /\ block = LastMerge.before

\* C30, what the code keeps: after a failed merge the reserved numbers are as
\* before, and the fields are gone.
C30_FailedMergeKeepsReserved ==
    (merges # <<>> /\ ~LastMerge.ok /\ ~LastMerge.panic) =>
        /\ block.reserved = LastMerge.before.reserved
        /\ block.fields = <<>>

\* C30 reached: a merge into a block with fields failed, and a later merge
\* that succeeded gave a field another number than it had before the failure.
C30_Witness ==
    /\ Len(merges) >= 2
    /\ ~merges[1].ok
    /\ ~merges[1].panic
    /\ merges[1].before.fields # <<>>
    /\ LastMerge.ok
    /\ \E n \in NamesIn(merges[1].before.fields) \cap NamesIn(block.fields) :
          NumbersOf(block.fields, n) # NumbersOf(merges[1].before.fields, n)

\* Every call of merge so far returned Ok.
AllMergesOk == \A i \in 1..Len(merges) : merges[i].ok

\* The block before the first merge and after each merge.
Snapshots == <<merges[1].before>> \o [i \in 1..Len(merges) |-> merges[i].after]

\* The (name, number) pairs of the fields of a block.
Assigned(b) == {<<b.fields[i].name, b.fields[i].number>> : i \in 1..Len(b.fields)}

\* C29: after merges that all succeeded, the numbers of the block's fields are
\* pairwise distinct and none of them is reserved; a number that a field name
\* had in the block at any earlier time belongs to no other field name now;
\* the number of a field that an earlier merge removed is reserved now, so a
\* field that has come back has another number than before.
C29_NumbersNeverReused ==
    (merges # <<>> /\ AllMergesOk) =>
        LET snaps == Snapshots
            now == Assigned(block)
        IN  /\ block = snaps[Len(snaps)]
            /\ \A i, k \in 1..Len(block.fields) :
                  i # k => block.fields[i].number # block.fields[k].number
            /\ \A i \in 1..Len(block.fields) :
                  block.fields[i].number \notin Elems(block.reserved)
            /\ \A s \in 1..Len(snaps) :
                  \A p \in Assigned(snaps[s]), q \in now :
                      p[2] = q[2] => p[1] = q[1]
            /\ \A s \in 1..(Len(snaps) - 1) :
                  \A p \in Assigned(snaps[s]) :
                      p[1] \notin NamesIn(snaps[s + 1].fields) =>
                          /\ p[2] \in Elems(block.reserved)
                          /\ p \notin now

\* C29 witness: three merges succeeded; the second removed a field that the
\* first had left in the block, the third added it again with another number,
\* and the old number is reserved.
C29_Witness ==
    /\ Len(merges) = 3
    /\ AllMergesOk
    /\ \E n \in NamesIn(merges[1].after.fields) :
          /\ n \notin NamesIn(merges[2].after.fields)
          /\ n \in NamesIn(block.fields)
          /\ NumbersOf(block.fields, n) # NumbersOf(merges[1].after.fields, n)
          /\ NumbersOf(merges[1].after.fields, n) \subseteq Elems(block.reserved)

----------------------------------------------------------------------------
(* Properties of process: nested diagnostics *)

\* The fields of nested messages compile_field was called on in the last turn.
NestedCompiled == {g \in CompiledFields : g.msg # LastBody.message}

\* The override the active target selects for the field is not a JSON object.
BadOverride(g) ==
    Annotated(g) /\ Matching(g) # {} /\ ~ParsesToObject(FirstMatching(g).json)

\* The properties of nested messages the last turn recorded.
NestedWalked == SelectSeq(LastWalked, LAMBDA e : e.message # LastBody.message)

CheckedParameters ==
    {"ignore_above", "position_increment_gap",
     "index_prefixes.min_chars", "index_prefixes.max_chars"}

\* The property sets one of the checked parameters to a forbidden value.
OffendingParameters(prop) ==
    {q \in CheckedParameters :
        /\ ParameterValue(prop, q) # None
        /\ Forbidden(q, Unwrap(ParameterValue(prop, q)))}

\* No output entry of the response is named after the message.
NoOutputFor(message) ==
    \A i \in 1..Len(response) : response[i].name.full_name # message

\* The diagnostics of all turns so far, in order.
TurnDiagnostics == Flatten([i \in 1..Len(bodies) |-> bodies[i].message_diagnostics])

\* C23: the Error for a field of a nested message, at any depth, whose selected
\* override is not a JSON object, and the Error for a property of a nested
\* message whose mapping sets a checked parameter to a forbidden value, are
\* among the diagnostics of the turn of the enclosing top-level message; that
\* message then has no output entry; the diagnostics of the turns are the
\* diagnostics of the run, in order and unchanged, and those process returns.
C23_NestedDiagnosticsPropagate ==
    Turned =>
        LET found == LastBody.message_diagnostics
            nested == NestedCompiled
            walked == NestedWalked
        IN  /\ \A g \in nested :
                  BadOverride(g) =>
                      /\ \E i \in 1..Len(found) :
                            found[i]
                              = OverrideError(g, IF from_str(FirstMatching(g).json).ok
                                                 THEN "InvalidTargetJsonType"
                                                 ELSE "InvalidTargetJson",
                                              FirstMatching(g).label)
                      /\ NoOutputFor(LastBody.message)
            /\ \A k \in 1..Len(walked) :
                  \A q \in OffendingParameters(walked[k].property) :
                      /\ \E i \in 1..Len(found) :
                            /\ found[i].severity = "Error"
                            /\ found[i].kind.tag = "InvalidParameterValue"
                            /\ found[i].kind.parameter = q
                            /\ found[i].kind.message = walked[k].message
                      /\ NoOutputFor(LastBody.message)
            /\ diagnostics = TurnDiagnostics
            /\ pc = "ok" => Unwrap(returned).diagnostics = TurnDiagnostics

\* C23 witness: process has returned; with the target bad the last turn
\* compiled p.P, whose field embeds t.Wrap, which embeds t.Target and t.Bad:
\* the Errors for the overrides of the fields ij and ik of t.Target and a
\* parameter Error for a property of t.Bad, all two levels down, are returned,
\* and p.P has no output entry.
C23_Witness ==
    /\ pc = "ok"
    /\ Turned
    /\ LastBody.message = "p.P"
    /\ \E g, h \in NestedCompiled :
          /\ g.msg = "t.Target" /\ h.msg = "t.Target"
          /\ BadOverride(g) /\ BadOverride(h)
          /\ ~from_str(FirstMatching(g).json).ok
          /\ from_str(FirstMatching(h).json).ok
    /\ \E k \in 1..Len(NestedWalked) :
          /\ NestedWalked[k].message = "t.Bad"
          /\ OffendingParameters(NestedWalked[k].property) # {}
    /\ \E k \in 1..Len(NestedWalked) : NestedWalked[k].message = "t.Wrap"
    /\ \E i \in 1..Len(Unwrap(returned).diagnostics) :
          Unwrap(returned).diagnostics[i].kind.tag = "InvalidTargetJson"
    /\ \E i \in 1..Len(Unwrap(returned).diagnostics) :
          Unwrap(returned).diagnostics[i].kind.tag = "InvalidParameterValue"
    /\ Unwrap(returned).file = <<>>

----------------------------------------------------------------------------
(* Properties of the validator: the field a diagnostic names *)

\* The positions of the fields of a message that resolve to `name` and were
\* compiled to a property in the last turn.
CompiledResolving(message, name) ==
    {i \in Resolving(message, name) : Call(MessageDescriptor(message).fields[i]).entry # None}

\* The field the property stored under `name` was compiled from: the last
\* declared one that resolves to the name and was compiled to a property.
CompiledFrom(message, name) ==
    MessageDescriptor(message).fields
        [CHOOSE i \in CompiledResolving(message, name) :
            \A k \in CompiledResolving(message, name) : k <= i]

\* A diagnostic is about a walked property and names the field the property
\* was compiled from, with the span of that field.
NamesCompiledField(d, e) ==
    /\ CompiledResolving(e.message, e.name) # {}
    /\ d.kind.message = MessageDescriptor(e.message).full_name
    /\ d.kind.field = CompiledFrom(e.message, e.name).name
    /\ d.location
          = Some([file |-> LastBody.filename,
                  span |-> ExpectedSpan(CompiledFrom(e.message, e.name))])
    /\ d.kind.tag = "InvalidFieldName" => d.kind.name = e.name /\ ~ValidName(e.name)
    /\ d.kind.tag = "InvalidParameterValue" =>
          /\ ParameterValue(e.property, d.kind.parameter) # None
          /\ Forbidden(d.kind.parameter, Unwrap(ParameterValue(e.property, d.kind.parameter)))

\* Some field of the message of a walked property resolves to the property's
\* name and was dropped for its override.
SomeDropped(e) ==
    \E i \in Resolving(e.message, e.name) \ CompiledResolving(e.message, e.name) : TRUE

\* C24: every diagnostic of a validator check names the declared name of the
\* field from which the property stored under the output name was compiled,
\* and is located at the span of that field, also when several annotated
\* fields resolve to the name and one of them was dropped for its override.
C24_NamesCompiledField ==
    Turned =>
        LET found == ValidatorDiagnostics
            walked == LastWalked
        IN  \A i \in 1..Len(found) :
                \E k \in 1..Len(walked) : NamesCompiledField(found[i], walked[k])

\* C24 where no field resolving to the name of a walked property was dropped:
\* the diagnostics name the field the property was compiled from.
C24_WhenNoneDropped ==
    Turned =>
        LET found == ValidatorDiagnostics
            walked == LastWalked
        IN  (\A k \in 1..Len(walked) : ~SomeDropped(walked[k])) =>
                \A i \in 1..Len(found) :
                    \E k \in 1..Len(walked) : NamesCompiledField(found[i], walked[k])

----------------------------------------------------------------------------
(* Properties of compile_message: termination *)

\* C25: compile_message returns for every message, also for one with an
\* annotated embedded-message field of its own type or of a type that refers
\* back to it: the recursion never exhausts the stack.
C25_CompileMessageReturns == pc # "overflow"

\* The messages an annotated embedded-message field of `message` leads to, in
\* at most n steps.
RECURSIVE Reaches(_, _)
Reaches(message, n) ==
    IF n = 0 THEN {}
    ELSE LET direct ==
                {f.desc : f \in {g \in FieldsOf(message) :
                                    /\ IsEmbedded(g) /\ Annotated(g)
                                    /\ ~(/\ Matching(g) # {}
                                         /\ ~ParsesToObject(FirstMatching(g).json))}}
         IN  direct \cup UNION {Reaches(m, n - 1) : m \in direct}

\* The message refers back to itself through annotated embedded-message fields
\* that compile to a property under the target of the run.
Recursive(message) == message \in Reaches(message, Cardinality(MessageNames))

\* C25 for the messages that do not lead to a recursive one: compile_message
\* does not exhaust the stack, whose depth stays below the number of messages.
C25_AcyclicReturns ==
    (stack # <<>>
     /\ ~Recursive(stack[1].message)
     /\ \A m \in Reaches(stack[1].message, Cardinality(MessageNames)) : ~Recursive(m)) =>
        /\ pc # "overflow"
        /\ Len(stack) <= 3

\* C25 reached without a recursive message: the outermost compile_message has
\* returned.
C25_Returned ==
    /\ pc = "compiled"
    /\ stack = <<>>

----------------------------------------------------------------------------
(* Properties of the validator: properties made from a target override *)

\* The property was made from a target override: its parameters are the JSON
\* object of the override.
FromOverride(prop) == prop.parameters.tag = "Raw"

\* The JSON object of the property sets ignore_above to 0.
RawIgnoreAboveZero(prop) ==
    /\ FromOverride(prop)
    /\ "ignore_above" \in DOMAIN prop.parameters.map
    /\ prop.parameters.map["ignore_above"] = JNum(0)

\* The InvalidParameterValue diagnostics of a sequence that name the field the
\* reverse-name index gives for a walked property.
ParameterDiagnosticsAbout(found, e) ==
    SelectSeq(found,
              LAMBDA d : /\ d.kind.tag = "InvalidParameterValue"
                         /\ d.kind.message = e.message
                         /\ d.kind.field = IndexedField(e.message, e.name).name)

\* C26: the parameter checks look only at properties whose parameters are the
\* annotation's typed mapping.  For a property made from a target override, at
\* any depth, the turn records no InvalidParameterValue, whatever the JSON
\* object of the override sets; and a turn in which no typed property sets a
\* checked parameter to a forbidden value and no selected override fails to
\* be a JSON object has no Error at all, so that the message is emitted when
\* its mapping has properties or index options.
C26_OverridesSkipParameterChecks ==
    Turned =>
        LET found == LastBody.message_diagnostics
            walked == LastWalked
        IN  /\ \A k \in 1..Len(walked) :
                  FromOverride(walked[k].property) =>
                      ParameterDiagnosticsAbout(found, walked[k]) = <<>>
            /\ ( /\ \A k \in 1..Len(walked) : OffendingParameters(walked[k].property) = {}
                 /\ \A g \in CompiledFields : ~BadOverride(g) )
               => /\ ~has_errors(found)
                  /\ LastBody.emitted
                        = (LastBody.mapping.properties # EmptyMap
                           \/ IsSome(LastBody.mapping.index))

\* C26 witness: with the target foo the last turn compiled p.P, whose field
\* embeds t.Target; the property of field ig of t.Target was made from the
\* override {"type":"keyword","ignore_above":0}; the turn recorded no Error and
\* p.P is emitted.
C26_Witness ==
    /\ pc = "ok"
    /\ Turned
    /\ LastBody.message = "p.P"
    /\ \E k \in 1..Len(LastWalked) :
          /\ LastWalked[k].message = "t.Target"
          /\ RawIgnoreAboveZero(LastWalked[k].property)
    /\ ~has_errors(LastBody.message_diagnostics)
    /\ LastBody.emitted
    /\ \E i \in 1..Len(response) : response[i].name.full_name = "p.P"

----------------------------------------------------------------------------
(* Properties of the diagnostics: the file of a span *)

\* The messages, top-level and nested, declared in a file.
DeclaredIn(file) == {m \in MessageNames : MessageDescriptor(m).file = file}

\* The source ranges of the fields declared in a file, as Span::from_field
\* gives them.
FieldSpansOf(file) ==
    {from_field(f) : f \in UNION {FieldsOf(m) : m \in DeclaredIn(file)}} \ {None}

\* The diagnostic has a location with a span.
HasSpan(d) == d.location # None /\ Unwrap(d.location).span # None

\* The span of the diagnostic is the source range of a field declared in the
\* file its location names.
SpanInNamedFile(d) ==
    Unwrap(Unwrap(d.location).span) \in
        {Unwrap(sp) : sp \in FieldSpansOf(Unwrap(d.location).file)}

\* C27: for every diagnostic of the run that has a span, the span denotes a
\* position in the file named by the diagnostic's location: it is the source
\* range of a field declared in that file, also when the diagnostic is about
\* a field of a nested message declared in another file than the requested
\* one.
C27_SpanInNamedFile ==
    \A i \in 1..Len(diagnostics) :
        HasSpan(diagnostics[i]) => SpanInNamedFile(diagnostics[i])

\* C27 when every message compiled in the last turn is declared in the
\* requested file: the spans of the turn's diagnostics are source ranges of
\* that file.
C27_WithinRequestedFile ==
    (Turned /\ \A g \in CompiledFields : MessageDescriptor(g.msg).file = LastBody.filename)
        => \A i \in 1..Len(LastBody.message_diagnostics) :
              LET d == LastBody.message_diagnostics[i]
              IN  HasSpan(d) => /\ Unwrap(d.location).file = LastBody.filename
                                /\ SpanInNamedFile(d)

\* C27 reached within one file: a turn on a message of tests.proto that embeds
\* only messages of tests.proto recorded a diagnostic with a span.
C27_SameFileReached ==
    /\ Turned
    /\ LastBody.message = "t.Wrap"
    /\ \E i \in 1..Len(LastBody.message_diagnostics) : HasSpan(LastBody.message_diagnostics[i])

----------------------------------------------------------------------------
(* Properties of the diagnostics: repeated findings *)

\* No two entries of a sequence of diagnostics are equal (same severity, kind
\* and location).
NoTwoEqual(found) ==
    \A i, j \in 1..Len(found) : i # j => found[i] # found[j]

\* The embedded-message fields compiled in the last turn whose message was
\* compiled by compile_message.
Embeddings == {g \in CompiledFields : IsEmbedded(g) /\ Annotated(g) /\ Call(g).entry # None}

\* In the last turn compile_message ran at most once on every message.
EachCompiledOnce ==
    \A g \in Embeddings :
        /\ g.desc # LastBody.message
        /\ \A h \in Embeddings : g # h => g.desc # h.desc

\* C28: each finding is reported once per run: the diagnostics of the run, and
\* those process returns, contain no two equal diagnostics, also when a
\* top-level message of a requested file is the type of an annotated embedded
\* field of another top-level message.
C28_ReportedOnce ==
    /\ NoTwoEqual(diagnostics)
    /\ IsSome(returned) /\ pc = "ok" => NoTwoEqual(Unwrap(returned).diagnostics)

\* C28 within one compilation: the diagnostics of a turn in which every message
\* was compiled at most once contain no two equal diagnostics.
C28_OncePerCompilation ==
    (Turned /\ EachCompiledOnce) => NoTwoEqual(LastBody.message_diagnostics)

\* C28 reached within one compilation: the turn of t.Wrap compiled t.Bad and
\* t.Target once each and recorded more than one diagnostic.
C28_CompilationReached ==
    /\ Turned
    /\ LastBody.message = "t.Wrap"
    /\ EachCompiledOnce
    /\ Len(LastBody.message_diagnostics) > 1

\* No file name is listed twice in file_to_generate.
RequestedOnce ==
    \A i, j \in 1..Len(request.file_to_generate) :
        i # j => request.file_to_generate[i] # request.file_to_generate[j]

\* C28 across the turns of a request that lists every file once: no
\* diagnostic of a turn equals a diagnostic of an earlier turn, also when the
\* message of the earlier turn is embedded by the message of the later one.
C28_ReportedOnceAcrossTurns ==
    RequestedOnce =>
        \A k, l \in 1..Len(bodies) :
            k < l =>
                \A i \in 1..Len(bodies[k].message_diagnostics) :
                    \A j \in 1..Len(bodies[l].message_diagnostics) :
                        bodies[k].message_diagnostics[i] # bodies[l].message_diagnostics[j]

====
